---- MODULE Spec2Model ----
(***************************************************************************)
(* Model of shtrih-kkt.                                                     *)
(*                                                                          *)
(* The reconciliation engine (src/main.go): processDevices polls every      *)
(* descriptor through a Driver, then scans the output directory for a donor *)
(* (findSourceWorkstationData), cleans the directory (cleanupDateDirectory) *)
(* and writes one merged file per polled device (saveNewMergedInfo).        *)
(*                                                                          *)
(* The driver and the discovery engine (src/pkg/shtrih): comDriver and      *)
(* mockDriver with Connect, Disconnect and GetFiscalInfo, and SearchDevices *)
(* with its serial phase (findOnComPort) and its network phase              *)
(* (scanRNDISNetworks, checkIP).                                            *)
(*                                                                          *)
(* File names, serial numbers and port names are sequences of               *)
(* one-character strings so that filepath.Ext, strings.TrimSuffix, the      *)
(* regexp ^[0-9]+$ and strconv.Atoi are computed and not assumed; every Go  *)
(* string is such a sequence ("" is <<>>).  JSON values are tagged records: *)
(* Str(s) for a JSON string, Bool(b) for a JSON boolean.                    *)
(***************************************************************************)
EXTENDS Integers, Sequences, FiniteSets, TLC

\* ------------------------------------------------------------------ bounds
\* descriptors per batch, entries of the output directory at the start of a
\* run, descriptors and entries together, entries of a directory scanned
\* directly, the last second of the clock, descriptors and entries together
\* of a batch that is run twice, calls made on one driver, serial ports of
\* the machine, the last host octet scanned in each subnet (254 in the
\* program), the slots of the pool of scanning goroutines (50 in the
\* program), entries of a directory cleaned directly, and entries of each of
\* its subdirectories; of a scan whose time is counted: the last host octet
\* of each subnet, the slots of the pool, and tcpTimeout in ticks;
\* descriptors and entries together of a batch whose second run finds files
\* that the first one did not write; entries of the shtrih list of
\* connect.json, devices SearchDevices finds, and instances of the program
\* started one from the other
MaxConfigs == 2
MaxFiles == 2
MaxInputs == 4
MaxScanFiles == 3
MaxClock == 2
MaxTwiceInputs == 2
MaxCalls == 4
MaxPorts == 2
MaxHost == 1
MaxGoroutines == 1
MaxCleanFiles == 3
MaxInside == 2
MaxTimedHost == 2
MaxSlots == 3
MaxTimeout == 2
MaxCarryInputs == 3
MaxSettings == 2
MaxFound == 3
MaxInstances == 2

\* ------------------------------------------------------------- JSON values
Str(s) == [t |-> "string", v |-> s]
Bool(b) == [t |-> "bool", v |-> IF b THEN <<"t", "r", "u", "e">> ELSE <<"f", "a", "l", "s", "e">>]
EmptyMap == [k \in {} |-> Str(<<>>)]

\* map[string]interface{} that may be nil
NilMap == [ok |-> FALSE, m |-> EmptyMap]
SomeMap(m) == [ok |-> TRUE, m |-> m]

Has(m, k) == k \in DOMAIN m

\* m with key k set to value v (finalMap[key] = value)
Put(m, k, v) == [x \in (DOMAIN m) \cup {k} |-> IF x = k THEN v ELSE m[x]]

\* ------------------------------------------------------------- file names
Digits == {"0", "1", "2", "3", "4", "5", "6", "7", "8", "9"}
JsonExt == <<".", "j", "s", "o", "n">>
TxtExt == <<".", "t", "x", "t">>

\* index of the final dot of name, 0 when there is none (filepath.Ext scans
\* from the end of the last path element)
RECURSIVE LastDot(_, _)
LastDot(name, i) ==
    IF i = 0 THEN 0
    ELSE IF name[i] = "/" THEN 0
    ELSE IF name[i] = "." THEN i
    ELSE LastDot(name, i - 1)

\* filepath.Ext
Ext(name) ==
    LET d == LastDot(name, Len(name))
    IN IF d = 0 THEN <<>> ELSE SubSeq(name, d, Len(name))

\* strings.TrimSuffix
TrimSuffix(s, suffix) ==
    IF /\ Len(suffix) <= Len(s)
       /\ SubSeq(s, Len(s) - Len(suffix) + 1, Len(s)) = suffix
    THEN SubSeq(s, 1, Len(s) - Len(suffix))
    ELSE s

\* isNumeric gone wrong: the pattern ^[0-9]*$, which the empty string matches
isNumericStar(s) == \A k \in 1..Len(s) : s[k] \in Digits

\* regexp.MustCompile(`^[0-9]+$`).MatchString
isNumeric(s) == Len(s) >= 1 /\ \A k \in 1..Len(s) : s[k] \in Digits

\* FileNameOf gone wrong: the last character of the serial number is cut off
FileNameOfTruncated(serial) ==
    (IF serial = <<>> THEN <<>> ELSE SubSeq(serial, 1, Len(serial) - 1)) \o JsonExt

\* fmt.Sprintf("%s.json", kktInfo.SerialNumber)
FileNameOf(serial) == serial \o JsonExt

\* ------------------------------------------------------------ file system
\* An entry of the output directory: a subdirectory, or a regular file that
\* os.ReadFile can read or not, whose bytes json.Unmarshal accepts as an
\* object (valid, obj) or rejects.
DirEntry == [kind |-> "dir", readable |-> TRUE, valid |-> FALSE, obj |-> EmptyMap]
JsonFile(m) == [kind |-> "file", readable |-> TRUE, valid |-> TRUE, obj |-> m]
GarbageFile == [kind |-> "file", readable |-> TRUE, valid |-> FALSE, obj |-> EmptyMap]
UnreadableFile(m) == [kind |-> "file", readable |-> FALSE, valid |-> TRUE, obj |-> m]

\* all orders in which os.ReadDir may list the names of S
Listings(S) ==
    {l \in [1..Cardinality(S) -> S] : \A a, b \in 1..Cardinality(S) : l[a] = l[b] => a = b}

\* ------------------------------------------ findSourceWorkstationData
\* the entry is skipped before it is read
SkippedByScan(name, e) == e.kind = "dir" \/ Ext(name) # JsonExt

\* Parses gone wrong: the error of os.ReadFile is not looked at
ParsesUnread(e) == e.valid

\* os.ReadFile and json.Unmarshal both succeed
Parses(e) == e.readable /\ e.valid

hasHostname(content) == Has(content, "hostname")
hasModelName(content) == Has(content, "modelName")

\* IsIdeal gone wrong: the modelName check is forgotten
IsIdealNoModelCheck(content) == hasHostname(content)

\* Scenario 1: the file is returned at once
IsIdeal(content) == hasHostname(content) /\ ~hasModelName(content)

\* Scenario 2: the file is remembered if it is the first of its kind
IsCandidate(content) == hasHostname(content) /\ hasModelName(content)

\* KeepCandidate gone wrong: every candidate replaces the one kept
KeepLastCandidate(firstCandidate, content) == SomeMap(content)

\* if firstCandidate == nil { firstCandidate = content }
KeepCandidate(firstCandidate, content) ==
    IF ~firstCandidate.ok THEN SomeMap(content) ELSE firstCandidate

\* the loop over files, from position i on, with the candidate kept so far
RECURSIVE ScanFrom(_, _, _, _)
ScanFrom(files, d, i, firstCandidate) ==
    IF i > Len(files)
    THEN firstCandidate
    ELSE LET name == files[i]
             e == d[name]
         IN IF SkippedByScan(name, e) \/ ~Parses(e)
            THEN ScanFrom(files, d, i + 1, firstCandidate)
            ELSE IF IsIdeal(e.obj)
            THEN SomeMap(e.obj)
            ELSE IF IsCandidate(e.obj)
            THEN ScanFrom(files, d, i + 1, KeepCandidate(firstCandidate, e.obj))
            ELSE ScanFrom(files, d, i + 1, firstCandidate)

\* findSourceWorkstationData: exists is FALSE when os.ReadDir fails
findSourceWorkstationData(exists, files, d) ==
    IF ~exists THEN NilMap ELSE ScanFrom(files, d, 1, NilMap)

\* ------------------------------------------------ cleanupDateDirectory
\* the entry is one that the loop tries to os.Remove
ShouldRemove(name, e) ==
    /\ ~(e.kind = "dir" \/ Ext(name) # JsonExt)
    /\ ~isNumeric(TrimSuffix(name, Ext(name)))

\* names removed by the loop over files, from position i on; removeErr is
\* the set of names on which os.Remove fails
RECURSIVE RemovedFrom(_, _, _, _)
RemovedFrom(files, d, i, removeErr) ==
    IF i > Len(files)
    THEN {}
    ELSE LET name == files[i]
             rest == RemovedFrom(files, d, i + 1, removeErr)
         IN IF ShouldRemove(name, d[name]) /\ name \notin removeErr
            THEN {name} \cup rest
            ELSE rest

\* cleanupDateDirectory: the set of names it deletes
cleanupDateDirectory(exists, files, d, removeErr) ==
    IF ~exists THEN {} ELSE RemovedFrom(files, d, 1, removeErr)

\* ------------------------------------------------------------ FiscalInfo
\* the fields of shtrih.FiscalInfo with their JSON keys; kind "bool" for the
\* two flags, omitempty for SubscriptionInfo
FiscalFields ==
    { [f |-> "ModelName", k |-> "modelName", kind |-> "string", omitempty |-> FALSE],
      [f |-> "SerialNumber", k |-> "serialNumber", kind |-> "string", omitempty |-> FALSE],
      [f |-> "RNM", k |-> "RNM", kind |-> "string", omitempty |-> FALSE],
      [f |-> "OrganizationName", k |-> "organizationName", kind |-> "string", omitempty |-> FALSE],
      [f |-> "Address", k |-> "address", kind |-> "string", omitempty |-> FALSE],
      [f |-> "Inn", k |-> "INN", kind |-> "string", omitempty |-> FALSE],
      [f |-> "FnSerial", k |-> "fn_serial", kind |-> "string", omitempty |-> FALSE],
      [f |-> "RegistrationDate", k |-> "datetime_reg", kind |-> "string", omitempty |-> FALSE],
      [f |-> "FnEndDate", k |-> "dateTime_end", kind |-> "string", omitempty |-> FALSE],
      [f |-> "OfdName", k |-> "ofdName", kind |-> "string", omitempty |-> FALSE],
      [f |-> "SoftwareDate", k |-> "bootVersion", kind |-> "string", omitempty |-> FALSE],
      [f |-> "FfdVersion", k |-> "ffdVersion", kind |-> "string", omitempty |-> FALSE],
      [f |-> "FnExecution", k |-> "fnExecution", kind |-> "string", omitempty |-> FALSE],
      [f |-> "InstalledDriver", k |-> "installed_driver", kind |-> "string", omitempty |-> FALSE],
      [f |-> "AttributeExcise", k |-> "attribute_excise", kind |-> "bool", omitempty |-> FALSE],
      [f |-> "AttributeMarked", k |-> "attribute_marked", kind |-> "bool", omitempty |-> FALSE],
      [f |-> "SubscriptionInfo", k |-> "licenses", kind |-> "string", omitempty |-> TRUE] }

\* the zero value FiscalInfo{}
ZeroInfo ==
    [x \in {ff.f : ff \in FiscalFields} |->
        IF x \in {"AttributeExcise", "AttributeMarked"} THEN FALSE ELSE <<>>]

\* *FiscalInfo: nil or a pointer to a record
NilInfo == [isNil |-> TRUE, rec |-> ZeroInfo]
PtrInfo(r) == [isNil |-> FALSE, rec |-> r]

\* json.Marshal(kktInfo) followed by json.Unmarshal into a map: one key per
\* field, without the omitempty field when it is empty
KktMap(kktInfo) ==
    LET kept == {ff \in FiscalFields : ~(ff.omitempty /\ kktInfo[ff.f] = <<>>)}
        FieldOf(key) == CHOOSE ff \in kept : ff.k = key
    IN [key \in {ff.k : ff \in kept} |->
            IF FieldOf(key).kind = "bool"
            THEN Bool(kktInfo[FieldOf(key).f])
            ELSE Str(kktInfo[FieldOf(key).f])]

\* ------------------------------------------------------ saveNewMergedInfo
\* SkippedValue gone wrong: empty strings are laid over the donor too
NeverSkipped(value) == FALSE

\* step 3: a value of the fresh record that is not laid over the donor's
SkippedValue(value) == value.t = "string" /\ value.v = <<>>

\* Overlay gone wrong: the donor's value wins where both have the key
OverlayDonorWins(wsData, kktMap) ==
    LET laid == {key \in DOMAIN kktMap : ~SkippedValue(kktMap[key])}
    IN [key \in (DOMAIN wsData) \cup laid |->
            IF key \in DOMAIN wsData THEN wsData[key] ELSE kktMap[key]]

\* steps 2 and 3: the copy of wsData with the fresh record laid over it
Overlay(wsData, kktMap) ==
    LET laid == {key \in DOMAIN kktMap : ~SkippedValue(kktMap[key])}
    IN [key \in (DOMAIN wsData) \cup laid |->
            IF key \in laid THEN kktMap[key] ELSE wsData[key]]

\* Stamped gone wrong: v_time is left as the overlay produced it
StampedCurrentTimeOnly(finalMap, currentTime) ==
    Put(finalMap, "current_time", Str(currentTime))

\* Stamped gone wrong: the time of writing is put into a third field too
StampedThrice(finalMap, currentTime) ==
    Put(Put(Put(finalMap, "current_time", Str(currentTime)), "v_time", Str(currentTime)),
        "saved_at", Str(currentTime))

\* step 4: both timestamps set to the formatted current time
Stamped(finalMap, currentTime) ==
    Put(Put(finalMap, "current_time", Str(currentTime)), "v_time", Str(currentTime))

\* the field map that saveNewMergedInfo serializes
MergedMap(kktInfo, wsData, currentTime) ==
    Stamped(Overlay(wsData, KktMap(kktInfo)), currentTime)

\* time.Now().Format("2006-01-02 15:04:05") for the second sec of the day
\* of the run (sec < 10)
DigitChar == <<"0", "1", "2", "3", "4", "5", "6", "7", "8", "9">>
Format(sec) == <<"0", "0", ":", "0", "0", ":", "0", DigitChar[sec + 1]>>

\* ------------------------------------------------------------- the inputs
SerialOne == <<"1">>
SerialTwo == <<"2">>
SerialAlpha == <<"a">>
ModelM == <<"M">>
LicenseL == <<"L">>
LocalHostname == <<"P", "C">>

InfoOf(serial, model, excise, licenses) ==
    [ZeroInfo EXCEPT !.SerialNumber = serial, !.ModelName = model,
                     !.AttributeExcise = excise, !.SubscriptionInfo = licenses]

\* records a device may report
Records ==
    { InfoOf(SerialOne, ModelM, FALSE, <<>>),
      InfoOf(SerialTwo, <<>>, TRUE, LicenseL),
      InfoOf(SerialAlpha, ModelM, FALSE, <<>>),
      InfoOf(<<>>, ModelM, FALSE, <<>>) }

\* NewMockDriver(data, connectErr, getInfoErr)
NewMockDriver(data, connectErr, getInfoErr) ==
    [MockData |-> data, ConnectErr |-> connectErr, GetFiscalInfoErr |-> getInfoErr]

Mocks ==
    {NewMockDriver(PtrInfo(r), FALSE, FALSE) : r \in Records}
    \cup { NewMockDriver(NilInfo, TRUE, FALSE),
           NewMockDriver(NilInfo, FALSE, TRUE) }

\* contents of the files found in the output directory
IdealDonor ==
    [k \in {"hostname", "vc", "serialNumber", "attribute_excise"} |->
        CASE k = "hostname" -> Str(<<"D">>)
          [] k = "vc" -> Str(<<"3">>)
          [] k = "serialNumber" -> Str(<<"9">>)
          [] k = "attribute_excise" -> Bool(TRUE)]
OldDeviceFile ==
    [k \in {"hostname", "modelName", "serialNumber", "licenses", "attribute_excise",
            "current_time", "v_time"} |->
        CASE k = "hostname" -> Str(<<"H">>)
          [] k = "modelName" -> Str(<<"O">>)
          [] k = "serialNumber" -> Str(<<"9">>)
          [] k = "licenses" -> Str(<<"K">>)
          [] k = "attribute_excise" -> Bool(TRUE)
          [] k = "current_time" -> Str(Format(0))
          [] k = "v_time" -> Str(Format(0))]
OtherDeviceFile ==
    [k \in {"hostname", "modelName"} |->
        CASE k = "hostname" -> Str(<<"G">>)
          [] k = "modelName" -> Str(<<"N">>)]
NoHostFile == [k \in {"modelName"} |-> Str(<<"X">>)]

\* entries the donor scan tells apart
ScanData ==
    { JsonFile(IdealDonor), JsonFile(OldDeviceFile), JsonFile(OtherDeviceFile),
      JsonFile(NoHostFile), GarbageFile, UnreadableFile(IdealDonor), DirEntry }

\* entries a run of processDevices starts from
FileData == {JsonFile(IdealDonor), JsonFile(OldDeviceFile), DirEntry}

\* 2.json, d.json, .json, r.txt
InitNames == {SerialTwo \o JsonExt, <<"d">> \o JsonExt, JsonExt, <<"r">> \o TxtExt}

\* 2.json, 9.json, d.json, r.txt
ScanNames ==
    {SerialTwo \o JsonExt, <<"9">> \o JsonExt, <<"d">> \o JsonExt, <<"r">> \o TxtExt}

\* the directories with at most max entries named in names and drawn from data
DirsOf(names, data, max) ==
    UNION { [S -> data] : S \in {T \in SUBSET names : Cardinality(T) <= max} }

\* 2.json, d.json, r.txt, s: entries of a directory that is cleaned
CleanNames == {SerialTwo \o JsonExt, <<"d">> \o JsonExt, <<"r">> \o TxtExt, <<"s">>}

\* 7.json, x.json, n.txt: entries of a subdirectory
InsideNames == {<<"7">> \o JsonExt, <<"x">> \o JsonExt, <<"n">> \o TxtExt}

\* the subdirectories of directory d
SubDirs(d) == {n \in DOMAIN d : d[n].kind = "dir"}

\* ----------------------------------------------------------------- state
VARIABLES
    mocks,            \* the driver newDriverFunc makes for descriptor k
    drivers,          \* per descriptor: connected and the calls made so far
    pc,               \* position in processDevices
    idx,              \* index of the descriptor being polled
    info,             \* what GetFiscalInfo returned for descriptor idx
    polledDevices,
    sourceWSDataMap,
    dirExists,        \* the output directory exists
    dir,              \* its entries: name -> entry
    pd,               \* index of the polled device being saved
    successCount,
    returned,         \* the slice processDevices returns
    now,              \* the clock, in seconds
    dir0,             \* the directory as the run found it
    scans,            \* how many times the directory was scanned for a donor
    listed,           \* the listing a direct call of findSourceWorkstationData saw
    deleted,          \* names removed by the cleanup pass
    removeFailed,     \* names on which os.Remove failed
    written,          \* names written by saveNewMergedInfo, in order
    saveFailed,       \* indices of polled devices whose save returned an error
    inside,           \* per subdirectory of the output directory: its entries
    run,              \* 1 in the first run of processDevices, 2 in the second
    firstSource,      \* the donor data of the first run
    firstDir,         \* the directory as the first run left it
    firstWritten,     \* the names the first run wrote
    drv,              \* a Driver called directly: the comDriver or the mockDriver
    resources,        \* what the thread of the comDriver holds
    call,             \* the last call made on drv and what it returned
    ncalls,           \* calls made on drv so far
    spc,              \* position of SearchDevices
    ports,            \* what serial.GetPortsList returned
    portsErr,         \* serial.GetPortsList returned an error
    portIdx,          \* index of the port that findOnComPort is called on
    baudIdx,          \* index of the baud rate tried next on that port
    tried,            \* the attempts of the findOnComPort call underway or last made
    foundDevices,
    probe,            \* the probe made by the last step, if it made one
    scanner,          \* position of scanRNDISNetworks
    nextAddr,         \* index of the address it starts a goroutine for next
    guard,            \* occupied slots of the pool
    wg,               \* the WaitGroup of scanRNDISNetworks
    workers,          \* per address: position of its goroutine and what it holds
    leaked,           \* what the goroutines that have ended left held
    closed,           \* foundChan is closed
    searchErr,        \* the error SearchDevices returned: "none" before it returns
    tcfg,             \* a timed scan: hosts per subnet, slots of the pool, tcpTimeout
    tpc,              \* a timed scan: position of scanRNDISNetworks
    clk,              \* a timed scan: ticks since scanRNDISNetworks was called
    tnext,            \* a timed scan: index of the address started next
    tguard,           \* a timed scan: occupied slots of the pool
    tw,               \* a timed scan: per address, position of its goroutine and
                      \* the ticks its dial has taken
    tfound,           \* a timed scan: the Configs sent on foundChan
    cfile,            \* connect.json
    cfile0,           \* connect.json as the run of main found it
    mpc,              \* position of main
    mrun,             \* 1 in the first run of main, 2 in the one after it
    mconfigs,         \* the descriptors handed to processDevices by main
    mpolled,          \* the descriptors of the devices processDevices returned
    searches,         \* calls of SearchDevices in this run of main
    polls,            \* calls of processDevices in this run of main
    mode,             \* the function main went into: runConfigMode or runDiscoveryMode
    saved,            \* the write of connect.json in this run of main: "none" made, "ok", or its error
    lastRun,          \* the run of main before this one: what it found, polled and saved
    inst,             \* per instance of the program: position of its main goroutine
    upd               \* per instance of the program: position of its checkForUpdates

\* a driver called directly, outside processDevices
direct == <<drv, resources, call, ncalls>>

\* SearchDevices
search ==
    << spc, ports, portsErr, portIdx, baudIdx, tried, foundDevices, probe, scanner,
       nextAddr, guard, wg, workers, leaked, closed, searchErr >>

\* scanRNDISNetworks with the time its dials take
timed == <<tcfg, tpc, clk, tnext, tguard, tw, tfound>>

\* main: the runs of the program over connect.json, and its instances
startup == <<cfile, cfile0, mpc, mrun, mode, mconfigs, mpolled, searches, polls, saved, lastRun>>
instances == <<inst, upd>>
program == <<startup, instances>>

\* what a single run of processDevices leaves alone
others == <<run, firstSource, firstDir, firstWritten, inside, direct, search, timed, program>>

vars ==
    << mocks, drivers, pc, idx, info, polledDevices, sourceWSDataMap, dirExists, dir,
       pd, successCount, returned, now, dir0, scans, listed, deleted, removeFailed,
       written, saveFailed, others >>

\* the descriptors handed to processDevices: descriptor k is configs[k]
configs == [k \in 1..Len(mocks) |-> k]

NewDriver == [connected |-> FALSE, Connect |-> 0, Disconnect |-> 0, GetFiscalInfo |-> 0]

NoResult == [err |-> FALSE, info |-> NilInfo]

\* ------------------------------------------------------------ comDriver
\* What the calls made from the thread of a comDriver hold: OS-thread locks
\* (runtime.LockOSThread), COM initializations (ole.CoInitializeEx),
\* references to the dispatch interface, and sessions open on the device.
NoResources == [locks |-> 0, inits |-> 0, refs |-> 0, sessions |-> 0]

\* values of the ResultCode property of the driver object
ResultCodes == {0, 1, -1}

\* What the COM calls of one connection attempt do: COM initialization,
\* CreateObject and QueryInterface fail or not, the Connect method returns a
\* transport error or not, reading ResultCode fails or yields resultCode.
OkEnv ==
    [initErr |-> FALSE, createErr |-> FALSE, queryErr |-> FALSE, connectErr |-> FALSE,
     rcReadErr |-> FALSE, resultCode |-> 0]
ComEnvs ==
    { [OkEnv EXCEPT !.initErr = TRUE],
      [OkEnv EXCEPT !.createErr = TRUE],
      [OkEnv EXCEPT !.queryErr = TRUE],
      [OkEnv EXCEPT !.rcReadErr = TRUE],
      [OkEnv EXCEPT !.connectErr = TRUE, !.rcReadErr = TRUE] }
    \cup { [OkEnv EXCEPT !.connectErr = ce, !.resultCode = rc] :
              ce \in BOOLEAN, rc \in ResultCodes }

\* checkError gone wrong: only a positive ResultCode is taken for an error
checkErrorPositiveOnly(env) == env.rcReadErr \/ env.resultCode > 0

\* comDriver.checkError returns an error
checkError(env) == env.rcReadErr \/ env.resultCode # 0

\* the device has a session open after the Connect method was called
SessionOpened(env) == ~env.connectErr /\ env.resultCode = 0

\* New(config): &comDriver{config: config}
NewComDriver == [connected |-> FALSE, dispatch |-> "nil"]

\* comDriver.Connect on driver d with resources r: the new driver, the new
\* resources and whether an error is returned.  The d.Disconnect() calls of
\* the two error paths find d.connected false and return at once.
ComConnect(d, r, env) ==
    IF d.connected THEN [d |-> d, r |-> r, err |-> FALSE]
    ELSE IF env.initErr \/ env.createErr THEN [d |-> d, r |-> r, err |-> TRUE]
    ELSE IF env.queryErr THEN [d |-> [d EXCEPT !.dispatch = "nil"], r |-> r, err |-> TRUE]
    ELSE LET held == [r EXCEPT !.locks = @ + 1, !.inits = @ + 1, !.refs = @ + 1,
                               !.sessions = IF SessionOpened(env) THEN @ + 1 ELSE @]
             d1 == [d EXCEPT !.dispatch = "held"]
         IN IF env.connectErr THEN [d |-> d1, r |-> held, err |-> TRUE]
            ELSE IF checkError(env) THEN [d |-> d1, r |-> held, err |-> TRUE]
            ELSE [d |-> [d1 EXCEPT !.connected = TRUE], r |-> held, err |-> FALSE]

\* ComDisconnect gone wrong: the check of d.connected is forgotten
ComDisconnectUnguarded(d, r) ==
    [d |-> [d EXCEPT !.connected = FALSE, !.dispatch = "released"],
     r |-> [locks |-> r.locks - 1, inits |-> r.inits - 1, refs |-> r.refs - 1,
            sessions |-> r.sessions - 1]]

\* comDriver.Disconnect: it returns nil always
ComDisconnect(d, r) ==
    IF ~d.connected THEN [d |-> d, r |-> r]
    ELSE [d |-> [d EXCEPT !.connected = FALSE, !.dispatch = "released"],
          r |-> [locks |-> r.locks - 1, inits |-> r.inits - 1, refs |-> r.refs - 1,
                 sessions |-> r.sessions - 1]]

\* ComGetFiscalInfo gone wrong: the check of d.connected is forgotten
ComGetFiscalInfoUnchecked(d, fetchErr, rec) ==
    IF fetchErr THEN [err |-> TRUE, info |-> NilInfo]
    ELSE [err |-> FALSE, info |-> PtrInfo(rec)]

\* comDriver.GetFiscalInfo: fetchErr when one of the four collecting steps
\* fails, rec the record they fill otherwise
ComGetFiscalInfo(d, fetchErr, rec) ==
    IF ~d.connected THEN [err |-> TRUE, info |-> NilInfo]
    ELSE IF fetchErr THEN [err |-> TRUE, info |-> NilInfo]
    ELSE [err |-> FALSE, info |-> PtrInfo(rec)]

\* the drivers that are called directly: a comDriver, or a mockDriver made
\* by NewMockDriver
NoMock == NewMockDriver(NilInfo, FALSE, FALSE)
DirectMocks ==
    { NewMockDriver(PtrInfo(InfoOf(SerialOne, ModelM, FALSE, <<>>)), FALSE, FALSE),
      NewMockDriver(NilInfo, TRUE, FALSE),
      NewMockDriver(NilInfo, FALSE, TRUE),
      NoMock }
NoCall ==
    [op |-> "none", err |-> FALSE, info |-> NilInfo, was |-> FALSE, env |-> OkEnv,
     fetchErr |-> FALSE, before |-> [d |-> NewComDriver, r |-> NoResources],
     prev |-> [op |-> "none", err |-> FALSE]]

\* ------------------------------------------------------- SearchDevices
\* strings.ToUpper on the letters that occur in port names
ToUpper(str) ==
    [k \in 1..Len(str) |->
        CASE str[k] = "c" -> "C"
          [] str[k] = "o" -> "O"
          [] str[k] = "m" -> "M"
          [] OTHER -> str[k]]

\* strings.TrimPrefix
TrimPrefix(str, prefix) ==
    IF Len(prefix) <= Len(str) /\ SubSeq(str, 1, Len(prefix)) = prefix
    THEN SubSeq(str, Len(prefix) + 1, Len(str))
    ELSE str

\* strconv.Atoi on unsigned decimal strings: whether it succeeds, and the number
AtoiOk(str) == Len(str) >= 1 /\ \A k \in 1..Len(str) : str[k] \in Digits
DigitValue(c) == CHOOSE v \in 0..9 : DigitChar[v + 1] = c
RECURSIVE Atoi(_)
Atoi(str) ==
    IF str = <<>> THEN 0
    ELSE 10 * Atoi(SubSeq(str, 1, Len(str) - 1)) + DigitValue(str[Len(str)])

\* the port number findOnComPort takes from the port name
ComPrefix == <<"C", "O", "M">>
ComNumOk(portName) == AtoiOk(TrimPrefix(ToUpper(portName), ComPrefix))
ComNum(portName) == Atoi(TrimPrefix(ToUpper(portName), ComPrefix))

\* COM1, com3 and a name that is not a COM port
PortNames == {<<"C", "O", "M", "1">>, <<"c", "o", "m", "3">>, <<"t", "t", "y">>}

\* what serial.GetPortsList may return: up to MaxPorts different names
PortLists ==
    UNION { {l \in [1..n -> PortNames] : \A a, b \in 1..n : l[a] = l[b] => a = b} :
              n \in 0..MaxPorts }

\* baudRates and baudRateIndexes of findOnComPort
baudRates == <<115200, 4800>>
baudRateIndexes(baud) == IF baud = 115200 THEN 6 ELSE 1

\* shtrih.Config
ZeroConfig ==
    [ConnectionType |-> 0, IPAddress |-> <<>>, TCPPort |-> 0, ComName |-> <<>>,
     ComNumber |-> 0, BaudRate |-> 0, Password |-> 0]

\* the Config findOnComPort returns for a port and a baud rate
SerialConfig(portName, baud) ==
    [ZeroConfig EXCEPT !.ConnectionType = 0, !.ComName = portName,
                       !.ComNumber = ComNum(portName),
                       !.BaudRate = baudRateIndexes(baud), !.Password = 30]

\* the addresses scanRNDISNetworks goes through, in its order: subnet
\* prefix and last octet
subnets == <<"192.168.137.", "192.168.138.">>

\* the last host octet of the loop over i
LastHost == 254

\* AddressesUpTo gone wrong: the loop over i starts at 0 and stops one early
AddressesFromZero(n) ==
    [k \in 1..(Len(subnets) * n) |-> <<subnets[((k - 1) \div n) + 1], (k - 1) % n>>]

\* the addresses of the two loops when the inner one runs from 1 to n
AddressesUpTo(n) ==
    [k \in 1..(Len(subnets) * n) |-> <<subnets[((k - 1) \div n) + 1], ((k - 1) % n) + 1>>]

Addresses == AddressesUpTo(MaxHost)

\* the Config checkIP sends for an address
NetConfig(ip) ==
    [ZeroConfig EXCEPT !.ConnectionType = 6, !.IPAddress = ip, !.TCPPort = 7778,
                       !.Password = 30]

\* a baud attempt of findOnComPort finds the device
AttemptFinds(env) ==
    /\ ~env.initErr /\ ~env.createErr /\ ~env.queryErr
    /\ ~env.connectErr /\ ~checkError(env)

\* AttemptLeaves gone wrong: ole.CoUninitialize() is forgotten where
\* CreateObject fails
AttemptLeavesInitialized(env) ==
    IF env.initErr THEN NoResources
    ELSE IF env.createErr THEN [NoResources EXCEPT !.inits = 1]
    ELSE IF env.queryErr THEN [NoResources EXCEPT !.inits = 1 - 1, !.refs = 1 - 1]
    ELSE [NoResources EXCEPT !.inits = 1 - 1, !.refs = 2 - 2,
                             !.sessions = IF SessionOpened(env) THEN 1 ELSE 0]

\* what one iteration of the loop over baudRates has acquired and not given
\* back when it ends: the COM initialization, the references unknown and
\* dispatch, and the session that the Connect method opened on the device
\* (the loop never calls the Disconnect method)
AttemptLeaves(env) ==
    IF env.initErr THEN NoResources
    ELSE IF env.createErr THEN [NoResources EXCEPT !.inits = 1 - 1]
    ELSE IF env.queryErr THEN [NoResources EXCEPT !.inits = 1 - 1, !.refs = 1 - 1]
    ELSE [NoResources EXCEPT !.inits = 1 - 1, !.refs = 2 - 2,
                             !.sessions = IF SessionOpened(env) THEN 1 ELSE 0]

\* at: the index of the port or of the address probed
NoProbe == [kind |-> "none", at |-> 0, env |-> OkEnv, ok |-> FALSE]
\* dialed: "no" before net.DialTimeout has returned, then "ok" or "failed"
IdleWorker == [st |-> "idle", dialed |-> "no", d |-> NewComDriver, r |-> NoResources]

\* SearchDevices is not running
NoSearch ==
    /\ spc = "idle"
    /\ ports = <<>>
    /\ portsErr = FALSE
    /\ portIdx = 1
    /\ baudIdx = 1
    /\ tried = <<>>
    /\ foundDevices = <<>>
    /\ probe = NoProbe
    /\ scanner = "idle"
    /\ nextAddr = 1
    /\ guard = 0
    /\ wg = 0
    /\ workers = [a \in 1..Len(Addresses) |-> IdleWorker]
    /\ leaked = NoResources
    /\ closed = FALSE
    /\ searchErr = "none"

\* no timed scan is made
NoTimed ==
    /\ tcfg = [hosts |-> 0, pool |-> 0, timeout |-> 0]
    /\ tpc = "idle"
    /\ clk = 0
    /\ tnext = 1
    /\ tguard = 0
    /\ tw = <<>>
    /\ tfound = <<>>

\* main is not running
NoStartup ==
    /\ cfile = [st |-> "missing", shtrih |-> [kind |-> "absent", list |-> <<>>], rest |-> "absent"]
    /\ cfile0 = cfile
    /\ mpc = "idle"
    /\ mrun = 1
    /\ mconfigs = <<>>
    /\ mpolled = <<>>
    /\ searches = 0
    /\ polls = 0
    /\ mode = "none"
    /\ saved = "none"
    /\ lastRun = [mode |-> "none", found |-> <<>>, polled |-> <<>>, saved |-> "none"]

\* the program is not started
NoProgram ==
    /\ NoStartup
    /\ inst = <<>>
    /\ upd = <<>>

\* before any run has ended and any driver was called directly
OthersInit ==
    /\ run = 1
    /\ firstSource = NilMap
    /\ firstDir = <<>>
    /\ firstWritten = {}
    /\ inside = <<>>
    /\ drv = [kind |-> "com", mock |-> NoMock, d |-> NewComDriver]
    /\ resources = NoResources
    /\ call = NoCall
    /\ ncalls = 0
    /\ NoSearch
    /\ NoTimed
    /\ NoProgram

Init ==
    /\ mocks \in UNION {[1..n -> Mocks] : n \in 0..MaxConfigs}
    /\ drivers = [k \in 1..Len(mocks) |-> NewDriver]
    /\ pc = "connect"
    /\ idx = 1
    /\ info = NoResult
    /\ polledDevices = <<>>
    /\ sourceWSDataMap = NilMap
    /\ dirExists \in BOOLEAN
    /\ dir \in IF dirExists THEN DirsOf(InitNames, FileData, MaxFiles) ELSE {<<>>}
    /\ Len(mocks) + Cardinality(DOMAIN dir) <= MaxInputs
    /\ pd = 1
    /\ successCount = 0
    /\ returned = <<>>
    /\ now = 1
    /\ dir0 = dir
    /\ scans = 0
    /\ listed = <<>>
    /\ deleted = {}
    /\ removeFailed = {}
    /\ written = <<>>
    /\ saveFailed = {}
    /\ OthersInit

\* ------------------------------------------------------------- the Driver
\* mockDriver.Connect on driver state d of mock m: the new state and whether
\* an error is returned
DriverConnect(m, d) ==
    IF m.ConnectErr
    THEN [d |-> [d EXCEPT !.Connect = @ + 1], err |-> TRUE]
    ELSE [d |-> [d EXCEPT !.Connect = @ + 1, !.connected = TRUE], err |-> FALSE]

\* mockDriver.GetFiscalInfo: (info, err)
DriverGetFiscalInfo(m, d) ==
    IF ~d.connected THEN [err |-> TRUE, info |-> NilInfo]
    ELSE IF m.GetFiscalInfoErr THEN [err |-> TRUE, info |-> NilInfo]
    ELSE IF m.MockData.isNil THEN [err |-> TRUE, info |-> NilInfo]
    ELSE [err |-> FALSE, info |-> m.MockData]

\* mockDriver.Disconnect
DriverDisconnect(d) == [d EXCEPT !.Disconnect = @ + 1, !.connected = FALSE]

\* ---------------------------------------------------------- processDevices
\* Accepted gone wrong: the check of the serial number is forgotten
AcceptedAnySerial(res) == ~res.err /\ ~res.info.isNil

\* the record of descriptor idx is kept: no error, not nil, serial not empty
Accepted(res) == ~res.err /\ ~res.info.isNil /\ res.info.rec.SerialNumber # <<>>

\* WsDataToUse gone wrong: only the hostname of the donor is passed on
WsDataToUseHostnameOnly(source) ==
    IF source.ok THEN [k \in {"hostname"} |-> source.m["hostname"]]
    ELSE [k \in {"hostname"} |-> Str(LocalHostname)]

\* WsDataToUse gone wrong: without a donor the base layer is empty
WsDataToUseEmptyFallback(source) ==
    IF source.ok THEN source.m ELSE EmptyMap

\* the donor data used for every device of the batch
WsDataToUse(source) ==
    IF source.ok THEN source.m
    ELSE [k \in {"hostname"} |-> Str(LocalHostname)]

polling == <<polledDevices, info>>
files == <<sourceWSDataMap, dirExists, dir, pd, successCount, now, scans, listed,
           deleted, removeFailed, written, saveFailed>>

\* driver.Connect() of the loop body; on error the loop continues
Connect ==
    /\ pc = "connect"
    /\ idx <= Len(mocks)
    /\ LET r == DriverConnect(mocks[idx], drivers[idx])
       IN /\ drivers' = [drivers EXCEPT ![idx] = r.d]
          /\ IF r.err
             THEN pc' = "connect" /\ idx' = idx + 1
             ELSE pc' = "getinfo" /\ idx' = idx
    /\ UNCHANGED <<others, mocks, polling, files, returned, dir0>>

\* info, err := driver.GetFiscalInfo()
GetFiscalInfo ==
    /\ pc = "getinfo"
    /\ info' = DriverGetFiscalInfo(mocks[idx], drivers[idx])
    /\ drivers' = [drivers EXCEPT ![idx].GetFiscalInfo = @ + 1]
    /\ pc' = "disconnect"
    /\ UNCHANGED <<others, mocks, idx, polledDevices, files, returned, dir0>>

\* Disconnect gone wrong: the session is closed only when the fetch succeeded
DisconnectOnSuccessOnly ==
    /\ pc = "disconnect"
    /\ drivers' = IF info.err THEN drivers ELSE [drivers EXCEPT ![idx] = DriverDisconnect(@)]
    /\ polledDevices' =
          IF Accepted(info)
          THEN Append(polledDevices, [Config |-> configs[idx], Info |-> info.info.rec])
          ELSE polledDevices
    /\ info' = NoResult
    /\ idx' = idx + 1
    /\ pc' = "connect"
    /\ UNCHANGED <<others, mocks, files, returned, dir0>>

\* driver.Disconnect() and the checks of err and info that follow it
Disconnect ==
    /\ pc = "disconnect"
    /\ drivers' = [drivers EXCEPT ![idx] = DriverDisconnect(@)]
    /\ polledDevices' =
          IF Accepted(info)
          THEN Append(polledDevices, [Config |-> configs[idx], Info |-> info.info.rec])
          ELSE polledDevices
    /\ info' = NoResult
    /\ idx' = idx + 1
    /\ pc' = "connect"
    /\ UNCHANGED <<others, mocks, files, returned, dir0>>

\* EndPolling gone wrong: the cleanup pass is started without the donor scan
EndPollingToCleanup ==
    /\ pc = "connect"
    /\ idx > Len(mocks)
    /\ IF Len(polledDevices) = 0
       THEN pc' = "done" /\ returned' = <<>>
       ELSE pc' = "cleanup" /\ returned' = returned
    /\ UNCHANGED <<others, mocks, drivers, idx, polling, files, dir0>>

\* EndPolling gone wrong: the check of len(polledDevices) is forgotten
EndPollingUnchecked ==
    /\ pc = "connect"
    /\ idx > Len(mocks)
    /\ pc' = "scan"
    /\ returned' = returned
    /\ UNCHANGED <<others, mocks, drivers, idx, polling, files, dir0>>

\* the end of the polling loop: return nil when nothing was polled
EndPolling ==
    /\ pc = "connect"
    /\ idx > Len(mocks)
    /\ IF Len(polledDevices) = 0
       THEN pc' = "done" /\ returned' = <<>>
       ELSE pc' = "scan" /\ returned' = returned
    /\ UNCHANGED <<others, mocks, drivers, idx, polling, files, dir0>>

\* sourceWSDataMap := findSourceWorkstationData()
FindSource ==
    /\ pc = "scan"
    /\ \E listing \in Listings(DOMAIN dir) :
          sourceWSDataMap' = findSourceWorkstationData(dirExists, listing, dir)
    /\ scans' = scans + 1
    /\ pc' = "cleanup"
    /\ UNCHANGED <<others, mocks, drivers, idx, polling, dirExists, dir, pd, successCount, now,
                   listed, deleted, removeFailed, written, saveFailed, returned, dir0>>

\* cleanupDateDirectory(); os.Remove may fail on any entry it is called on
Cleanup ==
    /\ pc = "cleanup"
    /\ \E listing \in Listings(DOMAIN dir) :
       \E removeErr \in SUBSET {n \in DOMAIN dir : ShouldRemove(n, dir[n])} :
          LET gone == cleanupDateDirectory(dirExists, listing, dir, removeErr)
          IN /\ dir' = [n \in (DOMAIN dir) \ gone |-> dir[n]]
             /\ deleted' = gone
             /\ removeFailed' = removeErr
    /\ pd' = 1
    /\ pc' = "save"
    /\ UNCHANGED <<others, mocks, drivers, idx, polling, sourceWSDataMap, dirExists, successCount,
                   now, scans, listed, written, saveFailed, returned, dir0>>

\* Save gone wrong: the loop is left at the first file that cannot be written
SaveStopsAtFailure ==
    /\ pc = "save"
    /\ pd <= Len(polledDevices)
    /\ LET kktInfo == polledDevices[pd].Info
           fileName == FileNameOf(kktInfo.SerialNumber)
           isDir == fileName \in DOMAIN dir /\ dir[fileName].kind = "dir"
       IN \E t \in {now, IF now < MaxClock THEN now + 1 ELSE now} :
          \E mkdirErr \in {FALSE} \cup (IF dirExists THEN {} ELSE {TRUE}) :
          \E writeErr \in {isDir, TRUE} :
             /\ now' = t
             /\ IF mkdirErr
                THEN UNCHANGED <<dirExists, dir, successCount, written>>
                        /\ saveFailed' = saveFailed \cup {pd}
                ELSE IF writeErr
                THEN dirExists' = TRUE
                        /\ UNCHANGED <<dir, successCount, written>>
                        /\ saveFailed' = saveFailed \cup {pd}
                ELSE /\ dirExists' = TRUE
                     /\ dir' = Put(dir, fileName,
                                   JsonFile(MergedMap(kktInfo, WsDataToUse(sourceWSDataMap),
                                                      Format(t))))
                     /\ successCount' = successCount + 1
                     /\ written' = Append(written, fileName)
                     /\ saveFailed' = saveFailed
    /\ pd' = IF saveFailed' # saveFailed THEN Len(polledDevices) + 1 ELSE pd + 1
    /\ UNCHANGED <<others, mocks, drivers, pc, idx, polling, sourceWSDataMap, scans, listed,
                   deleted, removeFailed, returned, dir0>>

\* Save gone wrong: finalMap is wsData itself and not a copy of it, so the
\* fields laid over it stay in the donor map of the iterations that follow
SaveIntoDonor ==
    /\ pc = "save"
    /\ pd <= Len(polledDevices)
    /\ LET kktInfo == polledDevices[pd].Info
           fileName == FileNameOf(kktInfo.SerialNumber)
           isDir == fileName \in DOMAIN dir /\ dir[fileName].kind = "dir"
       IN \E t \in {now, IF now < MaxClock THEN now + 1 ELSE now} :
          \E mkdirErr \in {FALSE} \cup (IF dirExists THEN {} ELSE {TRUE}) :
          \E writeErr \in {isDir, TRUE} :
             LET finalMap == MergedMap(kktInfo, WsDataToUse(sourceWSDataMap), Format(t))
             IN /\ now' = t
                /\ sourceWSDataMap' =
                      IF sourceWSDataMap.ok THEN SomeMap(finalMap) ELSE sourceWSDataMap
                /\ IF mkdirErr
                   THEN UNCHANGED <<dirExists, dir, successCount, written>>
                           /\ saveFailed' = saveFailed \cup {pd}
                   ELSE IF writeErr
                   THEN dirExists' = TRUE
                           /\ UNCHANGED <<dir, successCount, written>>
                           /\ saveFailed' = saveFailed \cup {pd}
                   ELSE /\ dirExists' = TRUE
                        /\ dir' = Put(dir, fileName, JsonFile(finalMap))
                        /\ successCount' = successCount + 1
                        /\ written' = Append(written, fileName)
                        /\ saveFailed' = saveFailed
    /\ pd' = pd + 1
    /\ UNCHANGED <<others, mocks, drivers, pc, idx, polling, scans, listed,
                   deleted, removeFailed, returned, dir0>>

\* one iteration of the save loop: saveNewMergedInfo(kktInfo, wsDataToUse,
\* filePath).  os.MkdirAll or os.WriteFile may fail; os.WriteFile fails when
\* the path names a directory.
Save ==
    /\ pc = "save"
    /\ pd <= Len(polledDevices)
    /\ LET kktInfo == polledDevices[pd].Info
           fileName == FileNameOf(kktInfo.SerialNumber)
           isDir == fileName \in DOMAIN dir /\ dir[fileName].kind = "dir"
       IN \E t \in {now, IF now < MaxClock THEN now + 1 ELSE now} :
          \E mkdirErr \in {FALSE} \cup (IF dirExists THEN {} ELSE {TRUE}) :
          \E writeErr \in {isDir, TRUE} :
             /\ now' = t
             /\ IF mkdirErr
                THEN UNCHANGED <<dirExists, dir, successCount, written>>
                        /\ saveFailed' = saveFailed \cup {pd}
                ELSE IF writeErr
                THEN dirExists' = TRUE
                        /\ UNCHANGED <<dir, successCount, written>>
                        /\ saveFailed' = saveFailed \cup {pd}
                ELSE /\ dirExists' = TRUE
                     /\ dir' = Put(dir, fileName,
                                   JsonFile(MergedMap(kktInfo, WsDataToUse(sourceWSDataMap),
                                                      Format(t))))
                     /\ successCount' = successCount + 1
                     /\ written' = Append(written, fileName)
                     /\ saveFailed' = saveFailed
    /\ pd' = pd + 1
    /\ UNCHANGED <<others, mocks, drivers, pc, idx, polling, sourceWSDataMap, scans, listed,
                   deleted, removeFailed, returned, dir0>>

\* return polledDevices
Return ==
    /\ pc = "save"
    /\ pd > Len(polledDevices)
    /\ pc' = "done"
    /\ returned' = polledDevices
    /\ UNCHANGED <<others, mocks, drivers, idx, polling, files, dir0>>

Next ==
    \/ Connect
    \/ GetFiscalInfo
    \/ Disconnect
    \/ EndPolling
    \/ FindSource
    \/ Cleanup
    \/ Save
    \/ Return

Spec == Init /\ [][Next]_vars

\* ------------------------------------------------ the batch run twice
\* processDevices is called again with the same descriptors once the first
\* call has returned.  The second run finds the directory as the first one
\* left it, or with the entries it held before the first run put back.
Rerun ==
    /\ pc = "done"
    /\ run = 1
    /\ run' = 2
    /\ firstSource' = sourceWSDataMap
    /\ firstDir' = dir
    /\ firstWritten' = {written[j] : j \in 1..Len(written)}
    /\ \E restored \in BOOLEAN :
          dir' = IF restored
                 THEN [n \in (DOMAIN dir) \cup (DOMAIN dir0) |->
                          IF n \in DOMAIN dir0 THEN dir0[n] ELSE dir[n]]
                 ELSE dir
    /\ dir0' = dir'
    /\ drivers' = [k \in 1..Len(mocks) |-> NewDriver]
    /\ pc' = "connect"
    /\ idx' = 1
    /\ info' = NoResult
    /\ polledDevices' = <<>>
    /\ sourceWSDataMap' = NilMap
    /\ pd' = 1
    /\ successCount' = 0
    /\ returned' = <<>>
    /\ scans' = 0
    /\ deleted' = {}
    /\ removeFailed' = {}
    /\ written' = <<>>
    /\ saveFailed' = {}
    /\ UNCHANGED <<mocks, dirExists, now, listed, inside, direct, search, timed, program>>

NextTwice == Next \/ Rerun

\* the batch that is run twice has at most MaxTwiceInputs descriptors and
\* directory entries together
InitTwice == Init /\ Len(mocks) + Cardinality(DOMAIN dir) <= MaxTwiceInputs

SpecTwice == InitTwice /\ [][NextTwice]_vars

\* a batch of one descriptor run twice on a directory that may hold a donor
\* and the file of a device that is not in the batch
InitCarry ==
    /\ Init
    /\ Len(mocks) = 1
    /\ Len(mocks) + Cardinality(DOMAIN dir) <= MaxCarryInputs

SpecCarry == InitCarry /\ [][NextTwice]_vars

\* ------------------------------------- findSourceWorkstationData, called
\* directly on a directory (as the tests of main_test.go do)
InitScan ==
    /\ mocks = <<>>
    /\ drivers = <<>>
    /\ pc = "call"
    /\ idx = 1
    /\ info = NoResult
    /\ polledDevices = <<>>
    /\ sourceWSDataMap = NilMap
    /\ dirExists \in BOOLEAN
    /\ dir \in IF dirExists THEN DirsOf(ScanNames, ScanData, MaxScanFiles) ELSE {<<>>}
    /\ pd = 1
    /\ successCount = 0
    /\ returned = <<>>
    /\ now = 1
    /\ dir0 = dir
    /\ scans = 0
    /\ listed = <<>>
    /\ deleted = {}
    /\ removeFailed = {}
    /\ written = <<>>
    /\ saveFailed = {}
    /\ OthersInit

FindSourceCall ==
    /\ pc = "call"
    /\ \E listing \in Listings(DOMAIN dir) :
          /\ sourceWSDataMap' = findSourceWorkstationData(dirExists, listing, dir)
          /\ listed' = listing
    /\ scans' = scans + 1
    /\ pc' = "called"
    /\ UNCHANGED <<others, mocks, drivers, idx, polling, dirExists, dir, pd, successCount, now,
                   deleted, removeFailed, written, saveFailed, returned, dir0>>

SpecScan == InitScan /\ [][FindSourceCall]_vars

\* ------------------------------------------- cleanupDateDirectory, called
\* directly on a directory that has subdirectories with entries of their own
InitCleanup ==
    /\ mocks = <<>>
    /\ drivers = <<>>
    /\ pc = "call"
    /\ idx = 1
    /\ info = NoResult
    /\ polledDevices = <<>>
    /\ sourceWSDataMap = NilMap
    /\ dirExists \in BOOLEAN
    /\ dir \in IF dirExists THEN DirsOf(CleanNames, FileData, MaxCleanFiles) ELSE {<<>>}
    /\ inside \in [SubDirs(dir) -> DirsOf(InsideNames, {JsonFile(IdealDonor)}, MaxInside)]
    /\ pd = 1
    /\ successCount = 0
    /\ returned = <<>>
    /\ now = 1
    /\ dir0 = dir
    /\ scans = 0
    /\ listed = <<>>
    /\ deleted = {}
    /\ removeFailed = {}
    /\ written = <<>>
    /\ saveFailed = {}
    /\ run = 1
    /\ firstSource = NilMap
    /\ firstDir = <<>>
    /\ firstWritten = {}
    /\ drv = [kind |-> "com", mock |-> NoMock, d |-> NewComDriver]
    /\ resources = NoResources
    /\ call = NoCall
    /\ ncalls = 0
    /\ NoSearch
    /\ NoTimed
    /\ NoProgram

\* CleanupCall gone wrong: the subdirectories are gone into and cleaned too
CleanupCallRecursive ==
    /\ pc = "call"
    /\ \E listing \in Listings(DOMAIN dir) :
       \E removeErr \in SUBSET {n \in DOMAIN dir : ShouldRemove(n, dir[n])} :
          LET gone == cleanupDateDirectory(dirExists, listing, dir, removeErr)
          IN /\ dir' = [n \in (DOMAIN dir) \ gone |-> dir[n]]
             /\ deleted' = gone
             /\ removeFailed' = removeErr
             /\ listed' = listing
    /\ inside' =
          [n \in DOMAIN inside |->
              [f \in {g \in DOMAIN inside[n] : ~ShouldRemove(g, inside[n][g])} |->
                  inside[n][f]]]
    /\ pc' = "called"
    /\ UNCHANGED <<run, firstSource, firstDir, firstWritten, direct, search, timed, program,
                   mocks, drivers,
                   idx, polling, sourceWSDataMap, dirExists, pd, successCount, now, scans,
                   written, saveFailed, returned, dir0>>

\* cleanupDateDirectory(): os.ReadDir lists the entries of outputDir itself,
\* the loop skips those that are directories, and os.Remove is called on
\* paths of outputDir only, so nothing inside a subdirectory is looked at
CleanupCall ==
    /\ pc = "call"
    /\ \E listing \in Listings(DOMAIN dir) :
       \E removeErr \in SUBSET {n \in DOMAIN dir : ShouldRemove(n, dir[n])} :
          LET gone == cleanupDateDirectory(dirExists, listing, dir, removeErr)
          IN /\ dir' = [n \in (DOMAIN dir) \ gone |-> dir[n]]
             /\ deleted' = gone
             /\ removeFailed' = removeErr
             /\ listed' = listing
    /\ inside' = inside
    /\ pc' = "called"
    /\ UNCHANGED <<run, firstSource, firstDir, firstWritten, direct, search, timed, program,
                   mocks, drivers,
                   idx, polling, sourceWSDataMap, dirExists, pd, successCount, now, scans,
                   written, saveFailed, returned, dir0>>

SpecCleanup == InitCleanup /\ [][CleanupCall]_vars

\* ------------------------------------------- a Driver called directly
\* (as the tests of the mock driver do, and as checkIP does with New(config))
reconciliation ==
    << mocks, drivers, pc, idx, info, polledDevices, sourceWSDataMap, dirExists, dir,
       pd, successCount, returned, now, dir0, scans, listed, deleted, removeFailed,
       written, saveFailed, run, firstSource, firstDir, firstWritten, inside >>
batch == <<reconciliation, timed, program>>

\* processDevices is not running
NoBatch ==
    /\ mocks = <<>>
    /\ drivers = <<>>
    /\ pc = "idle"
    /\ idx = 1
    /\ info = NoResult
    /\ polledDevices = <<>>
    /\ sourceWSDataMap = NilMap
    /\ dirExists = FALSE
    /\ dir = <<>>
    /\ pd = 1
    /\ successCount = 0
    /\ returned = <<>>
    /\ now = 1
    /\ dir0 = <<>>
    /\ scans = 0
    /\ listed = <<>>
    /\ deleted = {}
    /\ removeFailed = {}
    /\ written = <<>>
    /\ saveFailed = {}
    /\ run = 1
    /\ firstSource = NilMap
    /\ firstDir = <<>>
    /\ firstWritten = {}
    /\ inside = <<>>

InitDriver ==
    /\ NoBatch
    /\ NoSearch
    /\ NoTimed
    /\ NoProgram
    /\ drv \in {[kind |-> "com", mock |-> NoMock, d |-> NewComDriver]}
                \cup {[kind |-> "mock", mock |-> m, d |-> NewDriver] : m \in DirectMocks}
    /\ resources = NoResources
    /\ call = NoCall
    /\ ncalls = 0

\* the record of a call: what it returned, the driver and the resources it
\* found, and the call before it
Called(op, err, inf, env, fetchErr) ==
    [op |-> op, err |-> err, info |-> inf, was |-> drv.d.connected, env |-> env,
     fetchErr |-> fetchErr, before |-> [d |-> drv.d, r |-> resources],
     prev |-> [op |-> call.op, err |-> call.err]]

\* drv.Connect()
DriverConnectCall ==
    /\ ncalls < MaxCalls
    /\ IF drv.kind = "com"
       THEN \E env \in ComEnvs :
               LET r == ComConnect(drv.d, resources, env)
               IN /\ drv' = [drv EXCEPT !.d = r.d]
                  /\ resources' = r.r
                  /\ call' = Called("Connect", r.err, NilInfo, env, FALSE)
       ELSE LET r == DriverConnect(drv.mock, drv.d)
            IN /\ drv' = [drv EXCEPT !.d = r.d]
               /\ resources' = resources
               /\ call' = Called("Connect", r.err, NilInfo, OkEnv, FALSE)
    /\ ncalls' = ncalls + 1
    /\ UNCHANGED <<batch, search>>

\* drv.Disconnect()
DriverDisconnectCall ==
    /\ ncalls < MaxCalls
    /\ IF drv.kind = "com"
       THEN LET r == ComDisconnect(drv.d, resources)
            IN drv' = [drv EXCEPT !.d = r.d] /\ resources' = r.r
       ELSE drv' = [drv EXCEPT !.d = DriverDisconnect(@)] /\ resources' = resources
    /\ call' = Called("Disconnect", FALSE, NilInfo, OkEnv, FALSE)
    /\ ncalls' = ncalls + 1
    /\ UNCHANGED <<batch, search>>

\* drv.GetFiscalInfo()
DriverGetFiscalInfoCall ==
    /\ ncalls < MaxCalls
    /\ IF drv.kind = "com"
       THEN \E fetchErr \in BOOLEAN :
               LET r == ComGetFiscalInfo(drv.d, fetchErr,
                                         InfoOf(SerialTwo, <<>>, TRUE, LicenseL))
               IN /\ drv' = drv
                  /\ call' = Called("GetFiscalInfo", r.err, r.info, OkEnv, fetchErr)
       ELSE LET r == DriverGetFiscalInfo(drv.mock, drv.d)
            IN /\ drv' = [drv EXCEPT !.d.GetFiscalInfo = @ + 1]
               /\ call' = Called("GetFiscalInfo", r.err, r.info, OkEnv,
                                 drv.mock.GetFiscalInfoErr \/ drv.mock.MockData.isNil)
    /\ resources' = resources
    /\ ncalls' = ncalls + 1
    /\ UNCHANGED <<batch, search>>

NextDriver ==
    \/ DriverConnectCall
    \/ DriverDisconnectCall
    \/ DriverGetFiscalInfoCall

SpecDriver == InitDriver /\ [][NextDriver]_vars

\* ---------------------------------------------- SearchDevices, step by step
InitSearch ==
    /\ NoBatch
    /\ drv = [kind |-> "com", mock |-> NoMock, d |-> NewComDriver]
    /\ resources = NoResources
    /\ call = NoCall
    /\ ncalls = 0
    /\ NoSearch
    /\ NoTimed
    /\ NoProgram

network == <<scanner, nextAddr, guard, wg, workers, leaked, closed>>

\* what the steps of SearchDevices record of its calls
record == <<portsErr, tried, searchErr>>

\* GetPortsList gone wrong: the error of serial.GetPortsList is returned
GetPortsListFatal ==
    /\ spc = "idle"
    /\ \E listErr \in BOOLEAN : \E l \in PortLists :
          /\ ports' = IF listErr THEN <<>> ELSE l
          /\ portsErr' = listErr
          /\ spc' = IF listErr THEN "done" ELSE "serial"
          /\ searchErr' = IF listErr THEN "error" ELSE searchErr
    /\ probe' = NoProbe
    /\ UNCHANGED <<batch, direct, tried, portIdx, baudIdx, foundDevices, network>>

\* ports, err := serial.GetPortsList(); an error is logged and the serial
\* phase has nothing to go through
GetPortsList ==
    /\ spc = "idle"
    /\ \E listErr \in BOOLEAN : \E l \in PortLists :
          /\ ports' = IF listErr THEN <<>> ELSE l
          /\ portsErr' = listErr
    /\ spc' = "serial"
    /\ probe' = NoProbe
    /\ UNCHANGED <<batch, direct, tried, searchErr, portIdx, baudIdx, foundDevices, network>>

\* findOnComPort on a port whose name yields no number: it returns an error
\* before any attempt
BadPortName ==
    /\ spc = "serial"
    /\ portIdx <= Len(ports)
    /\ ~ComNumOk(ports[portIdx])
    /\ portIdx' = portIdx + 1
    /\ baudIdx' = 1
    /\ tried' = <<>>
    /\ probe' = NoProbe
    /\ UNCHANGED <<batch, direct, portsErr, searchErr, spc, ports, foundDevices, network>>

\* one iteration of the loop over baudRates in findOnComPort: everything
\* the attempt acquired is released before its result is looked at
BaudAttempt ==
    /\ spc = "serial"
    /\ portIdx <= Len(ports)
    /\ ComNumOk(ports[portIdx])
    /\ \E env \in ComEnvs :
          /\ probe' = [kind |-> "serial", at |-> portIdx, env |-> env,
                       ok |-> AttemptFinds(env)]
          /\ tried' =
                LET attempt == [port |-> ports[portIdx], baud |-> baudRates[baudIdx],
                                ok |-> AttemptFinds(env), left |-> AttemptLeaves(env)]
                IN IF baudIdx = 1 THEN <<attempt>> ELSE Append(tried, attempt)
          /\ IF AttemptFinds(env)
             THEN /\ foundDevices' =
                        Append(foundDevices, SerialConfig(ports[portIdx], baudRates[baudIdx]))
                  /\ portIdx' = portIdx + 1
                  /\ baudIdx' = 1
             ELSE /\ foundDevices' = foundDevices
                  /\ IF baudIdx < Len(baudRates)
                     THEN portIdx' = portIdx /\ baudIdx' = baudIdx + 1
                     ELSE portIdx' = portIdx + 1 /\ baudIdx' = 1
    /\ UNCHANGED <<batch, direct, portsErr, searchErr, spc, ports, network>>

\* StartNetwork gone wrong: the network phase does not wait for the loop
\* over the ports to end
StartNetworkEarly ==
    /\ spc = "serial"
    /\ spc' = "network"
    /\ scanner' = "loop"
    /\ tried' = <<>>
    /\ probe' = NoProbe
    /\ UNCHANGED <<batch, direct, portsErr, searchErr, ports, portIdx, baudIdx, foundDevices,
                   nextAddr, guard, wg, workers, leaked, closed>>

\* the serial loop is over: foundChan is made and the goroutine that runs
\* scanRNDISNetworks is started
StartNetwork ==
    /\ spc = "serial"
    /\ portIdx > Len(ports)
    /\ spc' = "network"
    /\ scanner' = "loop"
    /\ tried' = <<>>
    /\ probe' = NoProbe
    /\ UNCHANGED <<batch, direct, portsErr, searchErr, ports, portIdx, baudIdx, foundDevices,
                   nextAddr, guard, wg, workers, leaked, closed>>

\* Dispatch gone wrong: the goroutine is started without waiting for a slot
DispatchUnbounded ==
    /\ scanner = "loop"
    /\ nextAddr <= Len(Addresses)
    /\ wg' = wg + 1
    /\ guard' = guard + 1
    /\ workers' = [workers EXCEPT ![nextAddr].st = "dial"]
    /\ nextAddr' = nextAddr + 1
    /\ probe' = NoProbe
    /\ UNCHANGED <<batch, direct, record, spc, ports, portIdx, baudIdx, foundDevices, scanner,
                   leaked, closed>>

\* scanRNDISNetworks: wg.Add(1), guard <- struct{}{} and go func for the
\* next address; the send blocks while the pool is full
Dispatch ==
    /\ scanner = "loop"
    /\ nextAddr <= Len(Addresses)
    /\ guard < MaxGoroutines
    /\ wg' = wg + 1
    /\ guard' = guard + 1
    /\ workers' = [workers EXCEPT ![nextAddr].st = "dial"]
    /\ nextAddr' = nextAddr + 1
    /\ probe' = NoProbe
    /\ UNCHANGED <<batch, direct, record, spc, ports, portIdx, baudIdx, foundDevices, scanner,
                   leaked, closed>>

\* Dial gone wrong: the error of net.DialTimeout is not looked at
DialUnchecked(a) ==
    /\ workers[a].st = "dial"
    /\ \E dialErr \in BOOLEAN :
          workers' = [workers EXCEPT ![a].st = "connect",
                                     ![a].dialed = IF dialErr THEN "failed" ELSE "ok"]
    /\ probe' = NoProbe
    /\ UNCHANGED <<batch, direct, record, spc, ports, portIdx, baudIdx, foundDevices, scanner,
                   nextAddr, guard, wg, leaked, closed>>

\* checkIP, stage 1: net.DialTimeout; on error checkIP returns
Dial(a) ==
    /\ workers[a].st = "dial"
    /\ \E dialErr \in BOOLEAN :
          workers' = [workers EXCEPT ![a].st = IF dialErr THEN "release" ELSE "connect",
                                     ![a].dialed = IF dialErr THEN "failed" ELSE "ok"]
    /\ probe' = NoProbe
    /\ UNCHANGED <<batch, direct, record, spc, ports, portIdx, baudIdx, foundDevices, scanner,
                   nextAddr, guard, wg, leaked, closed>>

\* checkIP, stage 2: driver := New(config); driver.Connect()
NetConnect(a) ==
    /\ workers[a].st = "connect"
    /\ \E env \in ComEnvs :
          LET r == ComConnect(NewComDriver, NoResources, env)
          IN /\ workers' = [workers EXCEPT ![a].st = IF r.err THEN "release" ELSE "send",
                                           ![a].d = r.d, ![a].r = r.r]
             /\ probe' = [kind |-> "network", at |-> a, env |-> env, ok |-> ~r.err]
    /\ UNCHANGED <<batch, direct, record, spc, ports, portIdx, baudIdx, foundDevices, scanner,
                   nextAddr, guard, wg, leaked, closed>>

\* foundChan <- config in checkIP meets the receive of the range loop in
\* SearchDevices: foundDevices = append(foundDevices, config)
Receive(a) ==
    /\ spc = "network"
    /\ ~closed
    /\ workers[a].st = "send"
    /\ foundDevices' = Append(foundDevices, NetConfig(Addresses[a]))
    /\ workers' = [workers EXCEPT ![a].st = "disconnect"]
    /\ probe' = NoProbe
    /\ UNCHANGED <<batch, direct, record, spc, ports, portIdx, baudIdx, scanner, nextAddr, guard,
                   wg, leaked, closed>>

\* driver.Disconnect() at the end of checkIP
NetDisconnect(a) ==
    /\ workers[a].st = "disconnect"
    /\ LET r == ComDisconnect(workers[a].d, workers[a].r)
       IN workers' = [workers EXCEPT ![a].st = "release", ![a].d = r.d, ![a].r = r.r]
    /\ probe' = NoProbe
    /\ UNCHANGED <<batch, direct, record, spc, ports, portIdx, baudIdx, foundDevices, scanner,
                   nextAddr, guard, wg, leaked, closed>>

\* Release gone wrong: the goroutine ends without <-guard
ReleaseKeepsSlot(a) ==
    /\ workers[a].st = "release"
    /\ guard' = guard
    /\ wg' = wg - 1
    /\ workers' = [workers EXCEPT ![a] = [IdleWorker EXCEPT !.st = "done"]]
    /\ leaked' = [x \in DOMAIN leaked |-> leaked[x] + workers[a].r[x]]
    /\ probe' = NoProbe
    /\ UNCHANGED <<batch, direct, record, spc, ports, portIdx, baudIdx, foundDevices, scanner,
                   nextAddr, closed>>

\* checkIP has returned: <-guard and the deferred wg.Done(); the driver of
\* the goroutine is out of reach, what its thread holds stays held
Release(a) ==
    /\ workers[a].st = "release"
    /\ guard' = guard - 1
    /\ wg' = wg - 1
    /\ workers' = [workers EXCEPT ![a] = [IdleWorker EXCEPT !.st = "done"]]
    /\ leaked' = [x \in DOMAIN leaked |-> leaked[x] + workers[a].r[x]]
    /\ probe' = NoProbe
    /\ UNCHANGED <<batch, direct, record, spc, ports, portIdx, baudIdx, foundDevices, scanner,
                   nextAddr, closed>>

\* scanRNDISNetworks: wg.Wait() after the loops, then it returns
ScanReturns ==
    /\ scanner = "loop"
    /\ nextAddr > Len(Addresses)
    /\ wg = 0
    /\ scanner' = "done"
    /\ probe' = NoProbe
    /\ UNCHANGED <<batch, direct, record, spc, ports, portIdx, baudIdx, foundDevices, nextAddr,
                   guard, wg, workers, leaked, closed>>

\* CloseChan gone wrong: close(foundChan) without wg.Wait()
CloseChanEarly ==
    /\ scanner # "idle"
    /\ ~closed
    /\ closed' = TRUE
    /\ probe' = NoProbe
    /\ UNCHANGED <<batch, direct, record, spc, ports, portIdx, baudIdx, foundDevices, scanner,
                   nextAddr, guard, wg, workers, leaked>>

\* the goroutine of SearchDevices that waits for scanRNDISNetworks:
\* wg.Wait(); close(foundChan)
CloseChan ==
    /\ scanner = "done"
    /\ ~closed
    /\ closed' = TRUE
    /\ probe' = NoProbe
    /\ UNCHANGED <<batch, direct, record, spc, ports, portIdx, baudIdx, foundDevices, scanner,
                   nextAddr, guard, wg, workers, leaked>>

\* the range loop ends on the closed channel: return foundDevices, nil
SearchReturns ==
    /\ spc = "network"
    /\ closed
    /\ spc' = "done"
    /\ searchErr' = "nil"
    /\ probe' = NoProbe
    /\ UNCHANGED <<batch, direct, portsErr, tried, ports, portIdx, baudIdx, foundDevices,
                   network>>

NextSearch ==
    \/ GetPortsList
    \/ BadPortName
    \/ BaudAttempt
    \/ StartNetwork
    \/ Dispatch
    \/ \E a \in 1..Len(Addresses) : Dial(a)
    \/ \E a \in 1..Len(Addresses) : NetConnect(a)
    \/ \E a \in 1..Len(Addresses) : Receive(a)
    \/ \E a \in 1..Len(Addresses) : NetDisconnect(a)
    \/ \E a \in 1..Len(Addresses) : Release(a)
    \/ ScanReturns
    \/ CloseChan
    \/ SearchReturns

SpecSearch == InitSearch /\ [][NextSearch]_vars

\* SearchDevices on a machine without serial ports, after
\* serial.GetPortsList returned an error or an empty list
InitNetwork ==
    /\ NoBatch
    /\ drv = [kind |-> "com", mock |-> NoMock, d |-> NewComDriver]
    /\ resources = NoResources
    /\ call = NoCall
    /\ ncalls = 0
    /\ spc = "serial"
    /\ ports = <<>>
    /\ portsErr \in BOOLEAN
    /\ portIdx = 1
    /\ baudIdx = 1
    /\ tried = <<>>
    /\ foundDevices = <<>>
    /\ probe = NoProbe
    /\ scanner = "idle"
    /\ nextAddr = 1
    /\ guard = 0
    /\ wg = 0
    /\ workers = [a \in 1..Len(Addresses) |-> IdleWorker]
    /\ leaked = NoResources
    /\ closed = FALSE
    /\ searchErr = "none"
    /\ NoTimed
    /\ NoProgram

\* the steps of the network phase
NextNetwork ==
    \/ StartNetwork
    \/ Dispatch
    \/ \E a \in 1..Len(Addresses) : Dial(a)
    \/ \E a \in 1..Len(Addresses) : NetConnect(a)
    \/ \E a \in 1..Len(Addresses) : Receive(a)
    \/ \E a \in 1..Len(Addresses) : NetDisconnect(a)
    \/ \E a \in 1..Len(Addresses) : Release(a)
    \/ ScanReturns
    \/ CloseChan
    \/ SearchReturns

\* the network phase when every call returns and the scheduler runs a
\* goroutine that can run: as long as some step is possible, a step is taken
SpecNetworkLive == InitNetwork /\ [][NextNetwork]_vars /\ WF_vars(NextNetwork)

\* --------------------------------- scanRNDISNetworks with its time counted
\* The port is closed at every address: net.DialTimeout returns an error,
\* at once where the connection is refused and after tcpTimeout at the
\* latest where nothing answers, and checkIP returns.  Time passes only
\* while dials are under way; starting a goroutine and releasing a slot
\* take none.
\* const maxGoroutines = 50
PoolSize == 50

Ceil(n, m) == (n + m - 1) \div m

\* the addresses of a timed scan
TimedAddresses == AddressesUpTo(tcfg.hosts)

InitTimed ==
    /\ NoBatch
    /\ drv = [kind |-> "com", mock |-> NoMock, d |-> NewComDriver]
    /\ resources = NoResources
    /\ call = NoCall
    /\ ncalls = 0
    /\ NoSearch
    /\ tcfg \in [hosts : 1..MaxTimedHost, pool : 1..MaxSlots, timeout : 1..MaxTimeout]
    /\ tpc = "loop"
    /\ clk = 0
    /\ tnext = 1
    /\ tguard = 0
    /\ tw = [a \in 1..(Len(subnets) * tcfg.hosts) |-> [st |-> "idle", age |-> 0]]
    /\ tfound = <<>>
    /\ NoProgram

\* TimedDispatch gone wrong: guard is made without a capacity, so that one
\* goroutine at a time holds it
TimedDispatchOneByOne ==
    /\ tpc = "loop"
    /\ tnext <= Len(TimedAddresses)
    /\ tguard < 1
    /\ tguard' = tguard + 1
    /\ tw' = [tw EXCEPT ![tnext] = [st |-> "dial", age |-> 0]]
    /\ tnext' = tnext + 1
    /\ UNCHANGED <<reconciliation, direct, search, program, tcfg, tpc, clk, tfound>>

\* wg.Add(1), guard <- struct{}{} and go func for the next address
TimedDispatch ==
    /\ tpc = "loop"
    /\ tnext <= Len(TimedAddresses)
    /\ tguard < tcfg.pool
    /\ tguard' = tguard + 1
    /\ tw' = [tw EXCEPT ![tnext] = [st |-> "dial", age |-> 0]]
    /\ tnext' = tnext + 1
    /\ UNCHANGED <<reconciliation, direct, search, program, tcfg, tpc, clk, tfound>>

\* net.DialTimeout returns its error and checkIP returns without a send
TimedDialFails(a) ==
    /\ tw[a].st = "dial"
    /\ tw' = [tw EXCEPT ![a].st = "release"]
    /\ tfound' = tfound
    /\ UNCHANGED <<reconciliation, direct, search, program, tcfg, tpc, clk, tnext, tguard>>

\* <-guard and the deferred wg.Done()
TimedRelease(a) ==
    /\ tw[a].st = "release"
    /\ tw' = [tw EXCEPT ![a].st = "done"]
    /\ tguard' = tguard - 1
    /\ UNCHANGED <<reconciliation, direct, search, program, tcfg, tpc, clk, tnext, tfound>>

\* wg.Wait() after the loops, then scanRNDISNetworks returns
TimedScanReturns ==
    /\ tpc = "loop"
    /\ tnext > Len(TimedAddresses)
    /\ \A a \in 1..Len(TimedAddresses) : tw[a].st = "done"
    /\ tpc' = "done"
    /\ UNCHANGED <<reconciliation, direct, search, program, tcfg, clk, tnext, tguard, tw, tfound>>

\* a tick passes: nothing that takes no time is left to do, and no dial
\* under way has lasted tcpTimeout yet
Tick ==
    /\ tpc = "loop"
    /\ ~ENABLED TimedDispatch
    /\ \A a \in 1..Len(TimedAddresses) : tw[a].st # "release"
    /\ \E a \in 1..Len(TimedAddresses) : tw[a].st = "dial"
    /\ \A a \in 1..Len(TimedAddresses) : tw[a].st = "dial" => tw[a].age < tcfg.timeout
    /\ clk' = clk + 1
    /\ tw' = [a \in 1..Len(TimedAddresses) |->
                IF tw[a].st = "dial" THEN [tw[a] EXCEPT !.age = @ + 1] ELSE tw[a]]
    /\ UNCHANGED <<reconciliation, direct, search, program, tcfg, tpc, tnext, tguard, tfound>>

NextTimed ==
    \/ TimedDispatch
    \/ \E a \in 1..Len(TimedAddresses) : TimedDialFails(a)
    \/ \E a \in 1..Len(TimedAddresses) : TimedRelease(a)
    \/ TimedScanReturns
    \/ Tick

SpecTimed == InitTimed /\ [][NextTimed]_vars

\* ---------------------------------------------------- main and connect.json
\* strconv.Itoa
RECURSIVE Itoa(_)
Itoa(n) ==
    IF n < 0 THEN <<"-">> \o Itoa(0 - n)
    ELSE IF n < 10 THEN <<DigitChar[n + 1]>>
    ELSE Itoa(n \div 10) \o <<DigitChar[(n % 10) + 1]>>

\* ConnectionSettings
ZeroSettings ==
    [TypeConnect |-> 0, ComPort |-> <<>>, ComBaudrate |-> <<>>, IP |-> <<>>, IPPort |-> <<>>]

\* baudRateMap of convertSettingsToConfigs: whether the label is a key, and
\* its value
baudRateMapOk(label) ==
    label \in {<<"1", "1", "5", "2", "0", "0">>, <<"5", "7", "6", "0", "0">>,
               <<"3", "8", "4", "0", "0">>, <<"1", "9", "2", "0", "0">>,
               <<"9", "6", "0", "0">>, <<"4", "8", "0", "0">>}
baudRateMap(label) ==
    CASE label = <<"1", "1", "5", "2", "0", "0">> -> 6
      [] label = <<"5", "7", "6", "0", "0">> -> 5
      [] label = <<"3", "8", "4", "0", "0">> -> 4
      [] label = <<"1", "9", "2", "0", "0">> -> 3
      [] label = <<"9", "6", "0", "0">> -> 2
      [] label = <<"4", "8", "0", "0">> -> 1
      [] OTHER -> 0

\* baudRateReverseMap gone wrong: the labels of 1 and 2 are exchanged
baudRateReverseMapExchanged(index) ==
    CASE index = 6 -> <<"1", "1", "5", "2", "0", "0">>
      [] index = 5 -> <<"5", "7", "6", "0", "0">>
      [] index = 4 -> <<"3", "8", "4", "0", "0">>
      [] index = 3 -> <<"1", "9", "2", "0", "0">>
      [] index = 2 -> <<"4", "8", "0", "0">>
      [] index = 1 -> <<"9", "6", "0", "0">>
      [] OTHER -> <<>>

\* baudRateReverseMap of convertConfigToSettings; a missing key gives ""
baudRateReverseMap(index) ==
    CASE index = 6 -> <<"1", "1", "5", "2", "0", "0">>
      [] index = 5 -> <<"5", "7", "6", "0", "0">>
      [] index = 4 -> <<"3", "8", "4", "0", "0">>
      [] index = 3 -> <<"1", "9", "2", "0", "0">>
      [] index = 2 -> <<"9", "6", "0", "0">>
      [] index = 1 -> <<"4", "8", "0", "0">>
      [] OTHER -> <<>>

convertConfigToSettings(config) ==
    CASE config.ConnectionType = 0 ->
           [ZeroSettings EXCEPT !.TypeConnect = config.ConnectionType,
                                !.ComPort = config.ComName,
                                !.ComBaudrate = baudRateReverseMap(config.BaudRate)]
      [] config.ConnectionType = 6 ->
           [ZeroSettings EXCEPT !.TypeConnect = config.ConnectionType,
                                !.IP = config.IPAddress,
                                !.IPPort = Itoa(config.TCPPort)]
      [] OTHER -> [ZeroSettings EXCEPT !.TypeConnect = config.ConnectionType]

\* the body of the loop of convertSettingsToConfigs for one entry: whether
\* it panics (s.ComPort[3:] of a string shorter than 3), whether the entry
\* is skipped, and the Config otherwise; the numbers of the entries are far
\* below 2^31, where int32() leaves them as they are
ConvertEntry(s) ==
    LET config == [ZeroConfig EXCEPT !.ConnectionType = s.TypeConnect, !.Password = 30]
        skip == [panic |-> FALSE, skip |-> TRUE, config |-> config]
    IN
    CASE s.TypeConnect = 0 ->
           IF Len(s.ComPort) < 3
           THEN [panic |-> TRUE, skip |-> FALSE, config |-> config]
           ELSE IF ~AtoiOk(SubSeq(s.ComPort, 4, Len(s.ComPort))) THEN skip
           ELSE IF ~baudRateMapOk(s.ComBaudrate) THEN skip
           ELSE [panic |-> FALSE, skip |-> FALSE,
                 config |-> [config EXCEPT
                     !.ComName = s.ComPort,
                     !.ComNumber = Atoi(SubSeq(s.ComPort, 4, Len(s.ComPort))),
                     !.BaudRate = baudRateMap(s.ComBaudrate)]]
      [] s.TypeConnect = 6 ->
           IF ~AtoiOk(s.IPPort) THEN skip
           ELSE [panic |-> FALSE, skip |-> FALSE,
                 config |-> [config EXCEPT !.IPAddress = s.IP,
                                           !.TCPPort = Atoi(s.IPPort)]]
      [] OTHER -> skip

\* the loop of convertSettingsToConfigs from entry i on
RECURSIVE ConvertFrom(_, _, _)
ConvertFrom(settings, i, acc) ==
    IF i > Len(settings) THEN [panic |-> FALSE, configs |-> acc]
    ELSE LET r == ConvertEntry(settings[i]) IN
         IF r.panic THEN [panic |-> TRUE, configs |-> acc]
         ELSE ConvertFrom(settings, i + 1,
                          IF r.skip THEN acc ELSE Append(acc, r.config))

\* whether the call panics, and the Configs it returns otherwise
convertSettingsToConfigs(settings) == ConvertFrom(settings, 1, <<>>)

\* ConfigFile: the shtrih list, nil or not, and whether the other sections
\* hold anything
ZeroConfigFile == [Shtrih |-> [isNil |-> TRUE, list |-> <<>>], Rest |-> "zero"]

\* connect.json: missing, not JSON, or a JSON object whose "shtrih" is
\* absent, null or an array, and whose other members are absent, written as
\* zero values, or set
NoFile == [st |-> "missing", shtrih |-> [kind |-> "absent", list |-> <<>>], rest |-> "absent"]
Damaged == [st |-> "garbage", shtrih |-> [kind |-> "absent", list |-> <<>>], rest |-> "absent"]

\* json.Unmarshal into a ConfigFile: an absent or null "shtrih" leaves the
\* slice nil, an array makes it non-nil
Unmarshal(file) ==
    IF file.st = "garbage" THEN [err |-> TRUE, configFile |-> ZeroConfigFile]
    ELSE [err |-> FALSE,
          configFile |-> [Shtrih |-> IF file.shtrih.kind = "array"
                                     THEN [isNil |-> FALSE, list |-> file.shtrih.list]
                                     ELSE [isNil |-> TRUE, list |-> <<>>],
                          Rest |-> IF file.rest = "set" THEN "set" ELSE "zero"]]

\* json.MarshalIndent of a ConfigFile: every member is written, a nil slice
\* as null
MarshalIndent(configFile) ==
    [st |-> "json",
     shtrih |-> IF configFile.Shtrih.isNil
                THEN [kind |-> "null", list |-> <<>>]
                ELSE [kind |-> "array", list |-> configFile.Shtrih.list],
     rest |-> configFile.Rest]

\* os.WriteFile: the file cannot be opened and stays as it was, it is
\* truncated and not written whole, or it holds the data
WriteErrors == {"none", "open", "write"}
WriteFile(file, data, writeErr) ==
    CASE writeErr = "open" -> file
      [] writeErr = "write" -> Damaged
      [] OTHER -> data

\* the ConfigFile saveEmptyShtrihConfig and saveConfiguration start from
ReadForUpdate(file, readErr) ==
    IF file.st = "missing" \/ readErr THEN ZeroConfigFile
    ELSE Unmarshal(file).configFile

\* saveEmptyShtrihConfig gone wrong: the slice is left nil
saveEmptyShtrihConfigNil(file, readErr, writeErr) ==
    LET configFile == [ReadForUpdate(file, readErr) EXCEPT
                          !.Shtrih = [isNil |-> TRUE, list |-> <<>>]]
    IN WriteFile(file, MarshalIndent(configFile), writeErr)

\* connect.json after saveEmptyShtrihConfig
saveEmptyShtrihConfig(file, readErr, writeErr) ==
    LET configFile == [ReadForUpdate(file, readErr) EXCEPT
                          !.Shtrih = [isNil |-> FALSE, list |-> <<>>]]
    IN WriteFile(file, MarshalIndent(configFile), writeErr)

\* connect.json after saveConfiguration; an unreadable file is not looked at
saveConfiguration(file, polled, readErr, writeErr) ==
    LET newShtrihSettings == [k \in 1..Len(polled) |-> convertConfigToSettings(polled[k])]
        configFile == [ReadForUpdate(file, readErr) EXCEPT
                          !.Shtrih = [isNil |-> Len(polled) = 0, list |-> newShtrihSettings]]
    IN WriteFile(file, MarshalIndent(configFile), writeErr)

\* the entries connect.json may hold: COM1 at 115200, com3 at 4800, a port
\* name without a number, one of three characters, one of two, an empty
\* one, a speed that is no key of baudRateMap, a network device, one whose
\* port is no number, and a type that is neither 0 nor 6
SettingsEntries ==
    { [ZeroSettings EXCEPT !.ComPort = <<"C", "O", "M", "1">>,
                           !.ComBaudrate = <<"1", "1", "5", "2", "0", "0">>],
      [ZeroSettings EXCEPT !.ComPort = <<"c", "o", "m", "3">>,
                           !.ComBaudrate = <<"4", "8", "0", "0">>],
      [ZeroSettings EXCEPT !.ComPort = <<"C", "O", "M", "x">>,
                           !.ComBaudrate = <<"1", "1", "5", "2", "0", "0">>],
      [ZeroSettings EXCEPT !.ComPort = <<"C", "O", "M">>,
                           !.ComBaudrate = <<"9", "6", "0", "0">>],
      [ZeroSettings EXCEPT !.ComPort = <<"C", "O">>,
                           !.ComBaudrate = <<"9", "6", "0", "0">>],
      ZeroSettings,
      [ZeroSettings EXCEPT !.ComPort = <<"C", "O", "M", "1">>,
                           !.ComBaudrate = <<"1", "2", "0", "0">>],
      [ZeroSettings EXCEPT !.TypeConnect = 6, !.IP = Addresses[1],
                           !.IPPort = <<"7", "7", "7", "8">>],
      [ZeroSettings EXCEPT !.TypeConnect = 6, !.IP = Addresses[1],
                           !.IPPort = <<"x">>],
      [ZeroSettings EXCEPT !.TypeConnect = 1] }

\* connect.json before the first run
ConnectFiles ==
    {NoFile, Damaged}
    \cup { [st |-> "json", shtrih |-> [kind |-> k, list |-> <<>>], rest |-> r] :
             k \in {"absent", "null"}, r \in {"absent", "set"} }
    \cup { [st |-> "json", shtrih |-> [kind |-> "array", list |-> l], rest |-> r] :
             l \in UNION {[1..n -> SettingsEntries] : n \in 0..MaxSettings},
             r \in {"absent", "set"} }

\* what SearchDevices may return: the serial devices in the order of the
\* ports, then the network devices
FoundSerial == {SerialConfig(<<"C", "O", "M", "1">>, 115200), SerialConfig(<<"c", "o", "m", "3">>, 4800)}
FoundNetwork == {NetConfig(Addresses[1])}
FoundLists ==
    { l \in UNION {[1..n -> FoundSerial \cup FoundNetwork] : n \in 0..MaxFound} :
        /\ \A a, b \in 1..Len(l) : l[a] = l[b] => a = b
        /\ \A a, b \in 1..Len(l) : (a < b /\ l[a] \in FoundNetwork) => l[b] \in FoundNetwork }

\* the elements of seq at the positions in keep, in their order
RECURSIVE KeepAt(_, _)
KeepAt(seq, keep) ==
    IF seq = <<>> THEN <<>>
    ELSE KeepAt(SubSeq(seq, 1, Len(seq) - 1), keep)
         \o (IF Len(seq) \in keep THEN <<seq[Len(seq)]>> ELSE <<>>)

\* main up to the call of SearchDevices or processDevices: the read of
\* connect.json, and runConfigMode with its conversion
MainStart ==
    /\ mpc = "start"
    /\ \E readErr \in BOOLEAN :
         LET u == Unmarshal(cfile)
             conv == convertSettingsToConfigs(u.configFile.Shtrih.list)
         IN
         IF cfile.st = "missing"
         THEN mpc' = "search" /\ mode' = "discovery" /\ mconfigs' = <<>>
         ELSE IF readErr
         THEN mpc' = "fatal" /\ mode' = mode /\ mconfigs' = <<>>
         ELSE IF u.err \/ u.configFile.Shtrih.isNil
         THEN mpc' = "search" /\ mode' = "discovery" /\ mconfigs' = <<>>
         ELSE IF Len(u.configFile.Shtrih.list) = 0
         THEN mpc' = "done" /\ mode' = "config" /\ mconfigs' = <<>>
         ELSE IF conv.panic
         THEN mpc' = "panic" /\ mode' = "config" /\ mconfigs' = <<>>
         ELSE IF Len(conv.configs) = 0
         THEN mpc' = "done" /\ mode' = "config" /\ mconfigs' = <<>>
         ELSE mpc' = "poll" /\ mode' = "config" /\ mconfigs' = conv.configs
    /\ UNCHANGED <<cfile, cfile0, mrun, mpolled, searches, polls, saved, lastRun>>
    /\ UNCHANGED <<reconciliation, direct, search, timed, instances>>

\* runDiscoveryMode up to the call of processDevices: SearchDevices, and
\* saveEmptyShtrihConfig when it found nothing
SearchDevicesCall ==
    /\ mpc = "search"
    /\ \E found \in FoundLists, readErr \in BOOLEAN, writeErr \in WriteErrors :
         /\ searches' = searches + 1
         /\ mconfigs' = found
         /\ IF Len(found) = 0
            THEN /\ cfile' = saveEmptyShtrihConfig(cfile, readErr, writeErr)
                 /\ saved' = (IF writeErr = "none" THEN "ok" ELSE writeErr)
                 /\ mpc' = "done"
            ELSE /\ cfile' = cfile
                 /\ saved' = saved
                 /\ mpc' = "poll"
    /\ UNCHANGED <<cfile0, mrun, mode, mpolled, polls, lastRun>>
    /\ UNCHANGED <<reconciliation, direct, search, timed, instances>>

\* processDevices as main sees it: the descriptors of the devices polled,
\* in the order given; after it runConfigMode returns, and runDiscoveryMode
\* calls saveConfiguration when a device was polled
ProcessDevicesCall ==
    /\ mpc = "poll"
    /\ \E keep \in SUBSET (1..Len(mconfigs)), readErr \in BOOLEAN, writeErr \in WriteErrors :
         LET polled == KeepAt(mconfigs, keep) IN
         /\ polls' = polls + 1
         /\ mpolled' = polled
         /\ IF mode = "discovery" /\ Len(polled) > 0
            THEN /\ cfile' = saveConfiguration(cfile, polled, readErr, writeErr)
                 /\ saved' = (IF writeErr = "none" THEN "ok" ELSE writeErr)
            ELSE /\ cfile' = cfile
                 /\ saved' = saved
    /\ mpc' = "done"
    /\ UNCHANGED <<cfile0, mrun, mode, mconfigs, searches, lastRun>>
    /\ UNCHANGED <<reconciliation, direct, search, timed, instances>>

\* the program is started again after it ended
NextRun ==
    /\ mpc = "done"
    /\ mrun = 1
    /\ mrun' = 2
    /\ mpc' = "start"
    /\ cfile0' = cfile
    /\ lastRun' = [mode |-> mode, found |-> mconfigs, polled |-> mpolled, saved |-> saved]
    /\ mode' = "none"
    /\ mconfigs' = <<>>
    /\ mpolled' = <<>>
    /\ searches' = 0
    /\ polls' = 0
    /\ saved' = "none"
    /\ UNCHANGED cfile
    /\ UNCHANGED <<reconciliation, direct, search, timed, instances>>

InitMain ==
    /\ NoBatch
    /\ drv = [kind |-> "com", mock |-> NoMock, d |-> NewComDriver]
    /\ resources = NoResources
    /\ call = NoCall
    /\ ncalls = 0
    /\ NoSearch
    /\ NoTimed
    /\ cfile \in ConnectFiles
    /\ cfile0 = cfile
    /\ mpc = "start"
    /\ mrun = 1
    /\ mode = "none"
    /\ mconfigs = <<>>
    /\ mpolled = <<>>
    /\ searches = 0
    /\ polls = 0
    /\ saved = "none"
    /\ lastRun = [mode |-> "none", found |-> <<>>, polled |-> <<>>, saved |-> "none"]
    /\ inst = <<>>
    /\ upd = <<>>

NextMain ==
    \/ MainStart
    \/ SearchDevicesCall
    \/ ProcessDevicesCall
    \/ NextRun

SpecMain == InitMain /\ [][NextMain]_vars

\* ------------------------------------- main and checkForUpdates, interleaved
\* the instances of the program that may be started one from the other
Instances == 1..MaxInstances

\* the process of instance i is running
Alive(i) == inst[i] \in {"start", "read", "search", "poll", "write"}

\* what becomes of checkForUpdates when the process ends
Ended(u) == IF u \in {"idle", "off", "returned"} THEN u ELSE "killed"

\* main up to go checkForUpdates: loadServiceConfig returns nil or the
\* service configuration
MainLoad ==
    \E i \in Instances, serviceConfig \in {"nil", "set"} :
        /\ inst[i] = "start"
        /\ inst' = [inst EXCEPT ![i] = "read"]
        /\ upd' = [upd EXCEPT ![i] = IF serviceConfig = "nil" THEN "off" ELSE "called"]
        /\ UNCHANGED <<reconciliation, direct, search, timed, startup>>

\* main from the read of connect.json to the call it leads to: log.Fatalf,
\* runDiscoveryMode, processDevices, or the return from runConfigMode
MainRead ==
    \E i \in Instances, to \in {"fatal", "search", "poll", "returned"} :
        /\ inst[i] = "read"
        /\ inst' = [inst EXCEPT ![i] = to]
        /\ upd' = [upd EXCEPT ![i] = IF to \in {"fatal", "returned"} THEN Ended(@) ELSE @]
        /\ UNCHANGED <<reconciliation, direct, search, timed, startup>>

\* SearchDevices has returned: processDevices is called, or
\* saveEmptyShtrihConfig writes connect.json
MainSearch ==
    \E i \in Instances, to \in {"poll", "write"} :
        /\ inst[i] = "search"
        /\ inst' = [inst EXCEPT ![i] = to]
        /\ UNCHANGED upd
        /\ UNCHANGED <<reconciliation, direct, search, timed, startup>>

\* the polling loop of processDevices has ended: with nothing polled it
\* returns and so does main, else the files are written
MainPoll ==
    \E i \in Instances, to \in {"write", "returned"} :
        /\ inst[i] = "poll"
        /\ inst' = [inst EXCEPT ![i] = to]
        /\ upd' = [upd EXCEPT ![i] = IF to = "returned" THEN Ended(@) ELSE @]
        /\ UNCHANGED <<reconciliation, direct, search, timed, startup>>

\* the files are written and main returns: the process ends, whatever
\* checkForUpdates was doing
MainWrite ==
    \E i \in Instances :
        /\ inst[i] = "write"
        /\ inst' = [inst EXCEPT ![i] = "returned"]
        /\ upd' = [upd EXCEPT ![i] = Ended(@)]
        /\ UNCHANGED <<reconciliation, direct, search, timed, startup>>

\* checkForUpdates up to the call of doUpdate: it returns when the URL is
\* empty, the manifest cannot be had or read, or the version is not newer;
\* the last instance that can be started finds no newer version
UpdCheck ==
    \E i \in Instances, newer \in BOOLEAN :
        /\ Alive(i)
        /\ upd[i] = "called"
        /\ upd' = [upd EXCEPT ![i] = IF newer /\ i < MaxInstances
                                     THEN "doUpdate" ELSE "returned"]
        /\ UNCHANGED inst
        /\ UNCHANGED <<reconciliation, direct, search, timed, startup>>

\* doUpdate: the download of the new version
UpdDownload ==
    \E i \in Instances, err \in BOOLEAN :
        /\ Alive(i)
        /\ upd[i] = "doUpdate"
        /\ upd' = [upd EXCEPT ![i] = IF err THEN "returned" ELSE "apply"]
        /\ UNCHANGED inst
        /\ UNCHANGED <<reconciliation, direct, search, timed, startup>>

\* doUpdate: selfupdate.Apply and os.Executable
UpdApply ==
    \E i \in Instances, err \in BOOLEAN :
        /\ Alive(i)
        /\ upd[i] = "apply"
        /\ upd' = [upd EXCEPT ![i] = IF err THEN "returned" ELSE "restart"]
        /\ UNCHANGED inst
        /\ UNCHANGED <<reconciliation, direct, search, timed, startup>>

\* doUpdate: cmd.Start() starts the new version as the next instance
UpdStart ==
    \E i \in Instances, err \in BOOLEAN :
        /\ Alive(i)
        /\ upd[i] = "restart"
        /\ i < MaxInstances
        /\ inst[i + 1] = "none"
        /\ IF err
           THEN upd' = [upd EXCEPT ![i] = "returned"] /\ inst' = inst
           ELSE /\ upd' = [upd EXCEPT ![i] = "restarted"]
                /\ inst' = [inst EXCEPT ![i + 1] = "start"]
        /\ UNCHANGED <<reconciliation, direct, search, timed, startup>>

\* checkForUpdates after doUpdate returned true: os.Exit(0)
UpdExit ==
    \E i \in Instances :
        /\ Alive(i)
        /\ upd[i] = "restarted"
        /\ inst' = [inst EXCEPT ![i] = "exited"]
        /\ upd' = [upd EXCEPT ![i] = "returned"]
        /\ UNCHANGED <<reconciliation, direct, search, timed, startup>>

InitUpdate ==
    /\ NoBatch
    /\ drv = [kind |-> "com", mock |-> NoMock, d |-> NewComDriver]
    /\ resources = NoResources
    /\ call = NoCall
    /\ ncalls = 0
    /\ NoSearch
    /\ NoTimed
    /\ NoStartup
    /\ inst = [i \in Instances |-> IF i = 1 THEN "start" ELSE "none"]
    /\ upd = [i \in Instances |-> "idle"]

NextUpdate ==
    \/ MainLoad
    \/ MainRead
    \/ MainSearch
    \/ MainPoll
    \/ MainWrite
    \/ UpdCheck
    \/ UpdDownload
    \/ UpdApply
    \/ UpdStart
    \/ UpdExit

SpecUpdate == InitUpdate /\ [][NextUpdate]_vars

\* =================================================================== claims
\* what the claims say of a directory d, stated on the names themselves
EndsInJson(n) ==
    Len(n) >= Len(JsonExt) /\ SubSeq(n, Len(n) - Len(JsonExt) + 1, Len(n)) = JsonExt
BaseName(n) == SubSeq(n, 1, Len(n) - Len(JsonExt))
AllDigits(s) == s # <<>> /\ \A k \in DOMAIN s : s[k] \in Digits
JsonFileIn(d, n) == d[n].kind = "file" /\ EndsInJson(n)
ParseableIn(d, n) == JsonFileIn(d, n) /\ d[n].readable /\ d[n].valid
IdealIn(d, n) ==
    ParseableIn(d, n) /\ "hostname" \in DOMAIN d[n].obj /\ "modelName" \notin DOMAIN d[n].obj
CandidateIn(d, n) ==
    ParseableIn(d, n) /\ "hostname" \in DOMAIN d[n].obj /\ "modelName" \in DOMAIN d[n].obj

\* C1: whenever the directory holds a parseable ideal donor (hostname, no
\* modelName), findSourceWorkstationData returns the content of an ideal
\* donor, in every listing order.
C1_IdealPreferred ==
    (pc = "called" /\ \E n \in DOMAIN dir0 : IdealIn(dir0, n))
        => /\ sourceWSDataMap.ok
           /\ \E n \in DOMAIN dir0 : IdealIn(dir0, n) /\ sourceWSDataMap.m = dir0[n].obj

\* C1 witness: a candidate is listed first, an ideal donor after it, and the
\* ideal donor is what was returned
C1_Witness ==
    /\ pc = "called"
    /\ Len(listed) >= 2
    /\ CandidateIn(dir0, listed[1])
    /\ \E j \in 2..Len(listed) :
          IdealIn(dir0, listed[j]) /\ sourceWSDataMap = SomeMap(dir0[listed[j]].obj)

Saved == {k \in 1..Len(polledDevices) : pc \in {"save", "done"} /\ k < pd /\ k \notin saveFailed}
SerialOf(k) == polledDevices[k].Info.SerialNumber
SavedFile(k) == dir[SerialOf(k) \o JsonExt]
\* the names <serialNumber>.json of the polled devices
BatchNames == {SerialOf(k) \o JsonExt : k \in 1..Len(polledDevices)}

\* C2: the serialNumber of every file written for a polled device is the
\* serial number its device reported, whatever the donor carried.
C2_SerialFromDevice ==
    \A k \in Saved :
        /\ SerialOf(k) = mocks[polledDevices[k].Config].MockData.rec.SerialNumber
        /\ (SerialOf(k) \o JsonExt) \in DOMAIN dir
        /\ SavedFile(k).kind = "file"
        /\ "serialNumber" \in DOMAIN SavedFile(k).obj
        /\ SavedFile(k).obj["serialNumber"] = [t |-> "string", v |-> SerialOf(k)]

\* C2 witness: a file was written from a donor that carries another serial
\* number
C2_Witness ==
    /\ pc = "done"
    /\ sourceWSDataMap.ok
    /\ "serialNumber" \in DOMAIN sourceWSDataMap.m
    /\ \E k \in Saved : sourceWSDataMap.m["serialNumber"].v # SerialOf(k)

\* the JSON value of field ff of record rec
FreshValue(rec, ff) ==
    IF ff.kind = "bool"
    THEN [t |-> "bool", v |-> IF rec[ff.f] THEN <<"t", "r", "u", "e">>
                                           ELSE <<"f", "a", "l", "s", "e">>]
    ELSE [t |-> "string", v |-> rec[ff.f]]

\* C3: for a field that the donor map and the fresh record both have, the
\* written file keeps the donor's value when the fresh value is the empty
\* string and holds the fresh value otherwise (booleans, false included).
C3_MergeRule ==
    \A k \in Saved :
      \A ff \in FiscalFields :
        (sourceWSDataMap.ok /\ ff.k \in DOMAIN sourceWSDataMap.m)
            => /\ ff.k \in DOMAIN SavedFile(k).obj
               /\ IF ff.kind = "string" /\ polledDevices[k].Info[ff.f] = <<>>
                  THEN SavedFile(k).obj[ff.k] = sourceWSDataMap.m[ff.k]
                  ELSE SavedFile(k).obj[ff.k] = FreshValue(polledDevices[k].Info, ff)

\* C3 witness: one written file kept the donor's modelName because the fresh
\* one was empty, and one holds the fresh false over the donor's true
C3_Witness ==
    /\ pc = "done"
    /\ sourceWSDataMap.ok
    /\ {"modelName", "attribute_excise"} \subseteq DOMAIN sourceWSDataMap.m
    /\ \E k \in Saved :
          /\ polledDevices[k].Info.ModelName = <<>>
          /\ SavedFile(k).obj["modelName"] = sourceWSDataMap.m["modelName"]
    /\ \E k \in Saved :
          /\ ~polledDevices[k].Info.AttributeExcise
          /\ sourceWSDataMap.m["attribute_excise"].v = <<"t", "r", "u", "e">>
          /\ SavedFile(k).obj["attribute_excise"].v = <<"f", "a", "l", "s", "e">>

\* the entries the cleanup pass is said to delete: regular .json files whose
\* base name is not a (non-empty) string of decimal digits
NonCanonical(d) == {n \in DOMAIN d : JsonFileIn(d, n) /\ ~AllDigits(BaseName(n))}

DonorName == <<"d">> \o JsonExt
CanonicalName == SerialTwo \o JsonExt

\* C5: in a run that polled a device the donor scan happens exactly once,
\* before the cleanup pass deletes anything, and the cleanup pass is over
\* before the first file is written; the donor data is the content the
\* files had before any deletion.
C5_ScanCleanupSaveOrder ==
    /\ scans <= 1
    /\ (pc \in {"cleanup", "save"} \/ (pc = "done" /\ polledDevices # <<>>)) => scans = 1
    /\ pc \in {"connect", "getinfo", "disconnect", "scan"} => scans = 0
    /\ (deleted # {} \/ removeFailed # {} \/ written # <<>> \/ dir # dir0) => scans = 1
    /\ pc \in {"connect", "getinfo", "disconnect", "scan", "cleanup"}
          => deleted = {} /\ written = <<>> /\ dir = dir0
    /\ sourceWSDataMap.ok
          => \E n \in DOMAIN dir0 : ParseableIn(dir0, n) /\ dir0[n].obj = sourceWSDataMap.m

\* C5 witness: 2.json and d.json were found, d.json served as the donor and
\* was then deleted, 2.json is untouched and a device file was written
C5_Witness ==
    /\ pc = "done"
    /\ DOMAIN dir0 = {CanonicalName, DonorName}
    /\ sourceWSDataMap = SomeMap(dir0[DonorName].obj)
    /\ IdealIn(dir0, DonorName)
    /\ deleted = {DonorName}
    /\ CanonicalName \in DOMAIN dir /\ dir[CanonicalName] = dir0[CanonicalName]
    /\ written # <<>>

\* C6 as claimed: after a batch with at least one polled device and no
\* filesystem error, every .json file of the output directory has an
\* all-digit base name, whatever serial numbers the devices reported.
C6_OnlyCanonicalFilesRemain ==
    (pc = "done" /\ polledDevices # <<>> /\ removeFailed = {} /\ saveFailed = {})
        => \A n \in DOMAIN dir : JsonFileIn(dir, n) => AllDigits(BaseName(n))

\* C7: only the files <serialNumber>.json of the polled devices are created
\* or overwritten, at most one per polled device, and every other all-digit
\* .json file the run found stays as it was.
C7_OnlyBatchFilesWritten ==
    /\ Len(written) <= Len(polledDevices)
    /\ \A j \in 1..Len(written) : written[j] \in BatchNames
    /\ \A n \in DOMAIN dir : (n \notin DOMAIN dir0 \/ dir[n] # dir0[n]) => n \in BatchNames
    /\ \A n \in DOMAIN dir0 :
          (JsonFileIn(dir0, n) /\ AllDigits(BaseName(n)) /\ n \notin BatchNames)
              => n \in DOMAIN dir /\ dir[n] = dir0[n]

\* C7 witness: two devices were polled and saved, neither is device 2, and
\* the 2.json found at the start is unchanged
C7_Witness ==
    /\ pc = "done"
    /\ Len(polledDevices) = MaxConfigs
    /\ Len(written) = Len(polledDevices)
    /\ CanonicalName \in DOMAIN dir0
    /\ CanonicalName \notin BatchNames
    /\ CanonicalName \in DOMAIN dir /\ dir[CanonicalName] = dir0[CanonicalName]

\* descriptor k yields a valid record
Yields(k) ==
    /\ ~mocks[k].ConnectErr
    /\ ~mocks[k].GetFiscalInfoErr
    /\ ~mocks[k].MockData.isNil
    /\ mocks[k].MockData.rec.SerialNumber # <<>>

\* C8: processDevices returns, in input order, exactly the descriptors whose
\* Connect and GetFiscalInfo succeeded with a non-empty serial number; every
\* descriptor is connected to exactly once and no file is written for a
\* dropped one.
C8_ReturnsValidInOrder ==
    pc = "done"
        => /\ Len(returned) = Cardinality({k \in 1..Len(mocks) : Yields(k)})
           /\ \A j \in 1..Len(returned) :
                 /\ returned[j].Config \in 1..Len(mocks)
                 /\ Yields(returned[j].Config)
                 /\ returned[j].Info = mocks[returned[j].Config].MockData.rec
           /\ \A j, l \in 1..Len(returned) : j < l => returned[j].Config < returned[l].Config
           /\ \A k \in 1..Len(mocks) : drivers[k].Connect = 1
           /\ \A j \in 1..Len(written) :
                 \E k \in 1..Len(mocks) :
                    Yields(k) /\ written[j] = mocks[k].MockData.rec.SerialNumber \o JsonExt

\* C8 witness: the first descriptor failed to connect, the second was polled
\* and is the only one returned
C8_Witness ==
    /\ pc = "done"
    /\ Len(mocks) = 2
    /\ mocks[1].ConnectErr
    /\ Len(returned) = 1
    /\ returned[1].Config = 2
    /\ written # <<>>

\* C9: a descriptor whose Connect succeeded is disconnected exactly once,
\* after GetFiscalInfo returned and before the next Connect; at most one
\* session is open at a time and none once polling is over.
C9_OneSessionAtATime ==
    /\ \A k \in 1..Len(mocks) :
          /\ drivers[k].Disconnect <= 1
          /\ drivers[k].Disconnect = 1 => drivers[k].GetFiscalInfo = 1
          /\ drivers[k].connected => k = idx /\ pc \in {"getinfo", "disconnect"}
          /\ (k > idx \/ (k = idx /\ pc = "connect")) => drivers[k].Connect = 0
          /\ (k < idx /\ ~mocks[k].ConnectErr)
                => drivers[k].Disconnect = 1 /\ ~drivers[k].connected
          /\ (k < idx /\ mocks[k].ConnectErr) => drivers[k].Disconnect = 0
    /\ Cardinality({k \in 1..Len(mocks) : drivers[k].connected}) <= 1
    /\ pc \in {"scan", "cleanup", "save", "done"}
          => \A k \in 1..Len(mocks) : ~drivers[k].connected /\ drivers[k].Connect = 1

\* C9 witness: the fetch of a descriptor failed, its session was closed all
\* the same, and the next descriptor was connected to afterwards
C9_Witness ==
    \E k \in 1..Len(mocks) :
       /\ k < Len(mocks)
       /\ mocks[k].GetFiscalInfoErr
       /\ drivers[k].GetFiscalInfo = 1
       /\ drivers[k].Disconnect = 1
       /\ drivers[k + 1].connected

\* C11 as claimed: when the directory holds no ideal donor, only device files
\* that carry both hostname and modelName and files that are not .json,
\* findSourceWorkstationData returns nil.
C11_NilWithoutIdealDonor ==
    (/\ pc = "called"
     /\ \E n \in DOMAIN dir0 : CandidateIn(dir0, n)
     /\ \A n \in DOMAIN dir0 :
           CandidateIn(dir0, n) \/ (dir0[n].kind = "file" /\ ~EndsInJson(n)))
        => sourceWSDataMap = NilMap

\* the formatted readings of the clock up to now
ClockReadings == {Str(Format(sec)) : sec \in 1..now}

\* C12: every file written by saveNewMergedInfo holds current_time and
\* v_time, both equal to the clock reading taken by the call that wrote it,
\* and never the current_time or v_time of the donor.
C12_TimestampsFromClock ==
    /\ [](\A j \in 1..Len(written) :
             LET obj == dir[written[j]].obj
             IN /\ {"current_time", "v_time"} \subseteq DOMAIN obj
                /\ obj["current_time"] = obj["v_time"]
                /\ obj["current_time"] \in ClockReadings
                /\ \A key \in {"current_time", "v_time"} :
                      (sourceWSDataMap.ok /\ key \in DOMAIN sourceWSDataMap.m)
                          => obj[key] # sourceWSDataMap.m[key])
    /\ [][written' # written
             => LET obj == dir'[written'[Len(written')]].obj
                IN /\ obj["current_time"] = Str(Format(now'))
                   /\ obj["v_time"] = Str(Format(now'))]_vars

\* C12 witness: the donor carried both timestamps, the clock moved on during
\* the save loop, and the written file holds the later reading in both
C12_Witness ==
    /\ pc = "done"
    /\ sourceWSDataMap.ok
    /\ {"current_time", "v_time"} \subseteq DOMAIN sourceWSDataMap.m
    /\ now = MaxClock
    /\ \E k \in Saved :
          /\ SavedFile(k).obj["current_time"] = Str(Format(MaxClock))
          /\ SavedFile(k).obj["v_time"] = Str(Format(MaxClock))
          /\ sourceWSDataMap.m["v_time"] # SavedFile(k).obj["v_time"]

\* the fields that the JSON form of record rec has: all but an empty licenses
Produced(rec) == {ff \in FiscalFields : ~(ff.omitempty /\ rec[ff.f] = <<>>)}
TimeKeys == {"current_time", "v_time"}

\* C13 as claimed: with a donor, the file of a polled device is named
\* <serialNumber>.json, holds every donor field whose name the fresh record
\* does not produce with the donor's value, and holds every field of the
\* fresh record with the device's value.
C13_DonorAndFreshFields ==
    \A k \in Saved :
        sourceWSDataMap.ok
            => /\ (SerialOf(k) \o JsonExt) \in DOMAIN dir
               /\ SavedFile(k).kind = "file"
               /\ \A key \in (DOMAIN sourceWSDataMap.m)
                                \ {ff.k : ff \in Produced(polledDevices[k].Info)} :
                     /\ key \in DOMAIN SavedFile(k).obj
                     /\ SavedFile(k).obj[key] = sourceWSDataMap.m[key]
               /\ \A ff \in Produced(polledDevices[k].Info) :
                     /\ ff.k \in DOMAIN SavedFile(k).obj
                     /\ SavedFile(k).obj[ff.k] = FreshValue(polledDevices[k].Info, ff)

\* C13 as amended: with a donor, the file of a polled device is named
\* <serialNumber>.json; it holds every donor field other than current_time
\* and v_time whose name the fresh record does not produce, with the donor's
\* value; it holds every field of the fresh record that is not an empty
\* string, with the device's value; and for a fresh field that is the empty
\* string it holds the donor's value if the donor has the field and no such
\* field otherwise.
C13_DonorAndNonEmptyFreshFields ==
    \A k \in Saved :
        sourceWSDataMap.ok
            => /\ (SerialOf(k) \o JsonExt) \in DOMAIN dir
               /\ SavedFile(k).kind = "file"
               /\ \A key \in (DOMAIN sourceWSDataMap.m)
                                \ ({ff.k : ff \in Produced(polledDevices[k].Info)}
                                      \cup TimeKeys) :
                     /\ key \in DOMAIN SavedFile(k).obj
                     /\ SavedFile(k).obj[key] = sourceWSDataMap.m[key]
               /\ \A ff \in Produced(polledDevices[k].Info) :
                     IF FreshValue(polledDevices[k].Info, ff) # [t |-> "string", v |-> <<>>]
                     THEN /\ ff.k \in DOMAIN SavedFile(k).obj
                          /\ SavedFile(k).obj[ff.k] = FreshValue(polledDevices[k].Info, ff)
                     ELSE IF ff.k \in DOMAIN sourceWSDataMap.m
                     THEN /\ ff.k \in DOMAIN SavedFile(k).obj
                          /\ SavedFile(k).obj[ff.k] = sourceWSDataMap.m[ff.k]
                     ELSE ff.k \notin DOMAIN SavedFile(k).obj

\* C13 witness: an ideal donor with vc and without modelName was found, and
\* the files of two devices hold its hostname and vc, one with the device's
\* modelName and one, whose device reported none, without modelName
C13_Witness ==
    /\ pc = "done"
    /\ sourceWSDataMap.ok
    /\ "vc" \in DOMAIN sourceWSDataMap.m
    /\ "modelName" \notin DOMAIN sourceWSDataMap.m
    /\ \A k \in Saved :
          /\ SavedFile(k).obj["vc"] = sourceWSDataMap.m["vc"]
          /\ SavedFile(k).obj["hostname"] = sourceWSDataMap.m["hostname"]
    /\ \E k \in Saved :
          /\ "modelName" \in DOMAIN SavedFile(k).obj
          /\ SavedFile(k).obj["modelName"] = [t |-> "string", v |-> ModelM]
    /\ \E k \in Saved :
          /\ polledDevices[k].Info.ModelName = <<>>
          /\ "modelName" \notin DOMAIN SavedFile(k).obj

\* the fields of rec that are not an empty string
NonEmpty(rec) ==
    {ff \in Produced(rec) : FreshValue(rec, ff) # [t |-> "string", v |-> <<>>]}

\* C14 as claimed: without a donor the file of a polled device consists of
\* exactly hostname, set to the local hostname, the fields of the fresh
\* record with the device's values, current_time and v_time.
C14_HostnameAndFreshFieldsOnly ==
    \A k \in Saved :
        ~sourceWSDataMap.ok
            => /\ DOMAIN SavedFile(k).obj =
                     {"hostname"} \cup {ff.k : ff \in Produced(polledDevices[k].Info)}
                                  \cup TimeKeys
               /\ SavedFile(k).obj["hostname"] = [t |-> "string", v |-> LocalHostname]
               /\ \A ff \in Produced(polledDevices[k].Info) :
                     SavedFile(k).obj[ff.k] = FreshValue(polledDevices[k].Info, ff)

\* C14 as amended: without a donor the file of a polled device consists of
\* exactly hostname, set to the local hostname, the fields of the fresh
\* record that are not an empty string with the device's values,
\* current_time and v_time; a fresh field that is an empty string does not
\* appear.
C14_HostnameAndNonEmptyFreshFieldsOnly ==
    \A k \in Saved :
        ~sourceWSDataMap.ok
            => /\ DOMAIN SavedFile(k).obj =
                     {"hostname"} \cup {ff.k : ff \in NonEmpty(polledDevices[k].Info)}
                                  \cup TimeKeys
               /\ SavedFile(k).obj["hostname"] = [t |-> "string", v |-> LocalHostname]
               /\ \A ff \in NonEmpty(polledDevices[k].Info) :
                     SavedFile(k).obj[ff.k] = FreshValue(polledDevices[k].Info, ff)

\* C14 witness: the directory held entries but no donor, and the file of a
\* device that reported licenses and no model name was written with the
\* local hostname
C14_Witness ==
    /\ pc = "done"
    /\ ~sourceWSDataMap.ok
    /\ dir0 # <<>>
    /\ \E k \in Saved :
          /\ polledDevices[k].Info.ModelName = <<>>
          /\ SavedFile(k).obj["hostname"] = [t |-> "string", v |-> LocalHostname]
          /\ SavedFile(k).obj["licenses"] = [t |-> "string", v |-> LicenseL]
          /\ "modelName" \notin DOMAIN SavedFile(k).obj

\* a field map without its two timestamps
WithoutTimes(obj) == [key \in (DOMAIN obj) \ TimeKeys |-> obj[key]]

C16_FailedWriteIsSkipped ==
    /\ saveFailed \subseteq 1..Len(polledDevices)
    /\ pc \in {"save", "done"}
          => /\ pd <= Len(polledDevices) + 1
             /\ saveFailed \subseteq 1..(pd - 1)
             /\ successCount = (pd - 1) - Cardinality(saveFailed)
             /\ successCount = Len(written)
             /\ \A k \in Saved :
                   /\ (SerialOf(k) \o JsonExt) \in DOMAIN dir
                   /\ SavedFile(k).kind = "file"
    /\ (pc = "done" /\ polledDevices # <<>>)
          => /\ pd = Len(polledDevices) + 1
             /\ successCount = Len(polledDevices) - Cardinality(saveFailed)

\* C16 witness: the write of the first device failed, the file of the second
\* was written after it, and the count is one
C16_Witness ==
    /\ pc = "done"
    /\ Len(polledDevices) = 2
    /\ saveFailed = {1}
    /\ successCount = 1
    /\ written = <<SerialOf(2) \o JsonExt>>
    /\ (SerialOf(2) \o JsonExt) \in DOMAIN dir

\* the call before the last one left the driver without a connection: there
\* was none, or it was a Connect that failed, or a Disconnect
AfterNoConnection ==
    \/ call.prev.op = "none"
    \/ call.prev.op = "Connect" /\ call.prev.err
    \/ call.prev.op = "Disconnect"

\* C18: a driver is not connected before any Connect, after a Connect that
\* failed and after Disconnect; GetFiscalInfo on a driver that is not
\* connected, or whose fetch fails, returns an error and a nil record; and
\* no GetFiscalInfo returns a record together with an error.
C18_NoRecordWithError ==
    /\ (call.op = "none" \/ (call.op = "Connect" /\ call.err) \/ call.op = "Disconnect")
          => ~drv.d.connected
    /\ call.op = "GetFiscalInfo"
          => /\ AfterNoConnection => ~call.was
             /\ (~call.was \/ call.fetchErr) => (call.err /\ call.info.isNil)
             /\ call.err => call.info.isNil
             /\ ~call.err => ~call.info.isNil

\* C18 witness: GetFiscalInfo was called on a comDriver right after a
\* Connect that failed; the fetch itself would have worked, and an error and
\* no record were returned
C18_Witness ==
    /\ drv.kind = "com"
    /\ call.op = "GetFiscalInfo"
    /\ call.prev.op = "Connect" /\ call.prev.err
    /\ ~call.fetchErr
    /\ call.err
    /\ call.info.isNil

\* the connection state of a driver: the connected flag and, for a
\* comDriver, its dispatch reference
ConnState(d) ==
    [connected |-> d.connected,
     dispatch |-> IF "dispatch" \in DOMAIN d THEN d.dispatch ELSE "nil"]

\* the last call left the connection state and the held resources as they were
NothingChanged ==
    ConnState(drv.d) = ConnState(call.before.d) /\ resources = call.before.r

\* C19: Disconnect on a driver that is not connected returns nil and leaves
\* the connection state and every held resource as they were, so a second
\* Disconnect changes nothing after the first; Connect on a connected driver
\* returns nil, leaves the driver connected and opens no second session.
C19_ConnectDisconnectIdempotent ==
    /\ call.op = "Disconnect"
          => /\ ~call.err
             /\ ~drv.d.connected
             /\ ~call.was => NothingChanged
             /\ call.prev.op = "Disconnect" => NothingChanged
    /\ (call.op = "Connect" /\ call.was)
          => /\ ~call.err
             /\ drv.d.connected
             /\ NothingChanged
             /\ resources.sessions = call.before.r.sessions

\* C19 witness: a connected comDriver with one session was told to connect
\* again, although the device would have refused, and still has one session
C19_Witness ==
    /\ drv.kind = "com"
    /\ call.op = "Connect"
    /\ call.was
    /\ call.env.resultCode # 0
    /\ ~call.err
    /\ resources.sessions = 1

\* C17: a probe, be it a baud attempt of findOnComPort or the
\* comDriver.Connect of checkIP, reports success only if the Connect method
\* of the driver object returned no transport error and the ResultCode read
\* after it is 0; with a non-zero ResultCode the probe fails, also when the
\* Connect method returned no error.
C17_ProbeNeedsZeroResultCode ==
    probe.kind # "none"
        => /\ probe.ok => /\ ~probe.env.connectErr
                          /\ ~probe.env.rcReadErr
                          /\ probe.env.resultCode = 0
           /\ probe.env.resultCode # 0 => ~probe.ok
           /\ (probe.kind = "serial" /\ probe.ok)
                 => /\ foundDevices # <<>>
                    /\ foundDevices[Len(foundDevices)].ComName = ports[probe.at]
           /\ probe.kind = "network"
                 => workers[probe.at].st = IF probe.ok THEN "send" ELSE "release"

\* C17 witness: the Connect method of a baud attempt returned no error, the
\* ResultCode was negative, and the attempt found nothing
C17_Witness ==
    /\ probe.kind = "serial"
    /\ ~probe.env.connectErr
    /\ probe.env.resultCode < 0
    /\ ~probe.ok
    /\ foundDevices = <<>>

\* Idle, ScanningSerial, ScanningNetwork and Done as positions of SearchDevices
PhaseSteps ==
    {<<"idle", "serial">>, <<"serial", "network">>, <<"network", "done">>}
\* a goroutine of the network phase has been started
NetworkStarted ==
    \/ scanner # "idle"
    \/ nextAddr > 1
    \/ \E a \in 1..Len(Addresses) : workers[a].st # "idle"
\* position of a port name in the list GetPortsList returned
PortPos(name) == CHOOSE k \in 1..Len(ports) : ports[k] = name

\* C20: SearchDevices goes from Idle to ScanningSerial to ScanningNetwork to
\* Done and takes no other step between them; nothing of the network phase
\* is started before findOnComPort has returned for the last port; every
\* serial descriptor of the list precedes every network descriptor, and the
\* serial descriptors are in the order in which the ports were enumerated.
C20_SerialThenNetwork ==
    /\ [][spc' # spc => <<spc, spc'>> \in PhaseSteps]_vars
    /\ [](/\ NetworkStarted => (spc \in {"network", "done"} /\ portIdx > Len(ports))
          /\ probe.kind = "serial" => ~NetworkStarted
          /\ spc = "idle" => foundDevices = <<>>
          /\ spc = "done"
                => /\ closed
                   /\ \A a \in 1..Len(Addresses) : workers[a].st = "done"
          /\ \A i, j \in 1..Len(foundDevices) :
                i < j => /\ ~(/\ foundDevices[i].ConnectionType = 6
                              /\ foundDevices[j].ConnectionType = 0)
                         /\ (/\ foundDevices[i].ConnectionType = 0
                             /\ foundDevices[j].ConnectionType = 0)
                               => PortPos(foundDevices[i].ComName)
                                     < PortPos(foundDevices[j].ComName))

\* C20 witness: com3 was enumerated before COM1, both ports and an address
\* answered, and the returned list holds com3, COM1 and the address in
\* that order
C20_Witness ==
    /\ spc = "done"
    /\ Len(foundDevices) = 3
    /\ foundDevices[1].ComName = <<"c", "o", "m", "3">> /\ foundDevices[1].ComNumber = 3
    /\ foundDevices[2].ComName = <<"C", "O", "M", "1">> /\ foundDevices[2].ComNumber = 1
    /\ foundDevices[3].ConnectionType = 6

\* positions in the list of the serial descriptors of the port named name
DescriptorsOf(name) ==
    {k \in 1..Len(foundDevices) :
        foundDevices[k].ConnectionType = 0 /\ foundDevices[k].ComName = name}

NetDescriptorsOf(a) ==
    {k \in 1..Len(foundDevices) :
        foundDevices[k].ConnectionType = 6 /\ foundDevices[k].IPAddress = Addresses[a]}

\* C22: for every address, comDriver.Connect is called only in a goroutine
\* whose net.DialTimeout returned no error; the descriptor of the address is
\* put into the list only by the goroutine whose dial and whose Connect both
\* succeeded; a goroutine whose dial failed holds no driver, no resource
\* and no session, goes on to release its slot and end without leaving
\* anything held, and its address has no descriptor.
C22_ConnectOnlyAfterDial ==
    /\ [](\A a \in 1..Len(Addresses) :
            /\ workers[a].st \in {"connect", "send", "disconnect"} => workers[a].dialed = "ok"
            /\ workers[a].st \in {"idle", "dial", "connect"}
                  => /\ workers[a].d = NewComDriver
                     /\ workers[a].r = NoResources
                     /\ NetDescriptorsOf(a) = {}
            /\ workers[a].dialed = "failed"
                  => /\ workers[a].st = "release"
                     /\ workers[a].d = NewComDriver
                     /\ workers[a].r = NoResources
                     /\ NetDescriptorsOf(a) = {}
            /\ workers[a].st = "send" => (workers[a].d.connected /\ NetDescriptorsOf(a) = {}))
    /\ [](probe.kind = "network" => workers[probe.at].dialed = "ok")
    /\ [][\A a \in 1..Len(Addresses) :
            /\ NetDescriptorsOf(a)' # NetDescriptorsOf(a)
                  => /\ workers[a].st = "send"
                     /\ workers[a].dialed = "ok"
                     /\ workers[a].d.connected
            /\ (workers[a].dialed = "failed" /\ workers'[a] # workers[a])
                  => /\ workers'[a].st = "done"
                     /\ leaked' = leaked
                     /\ foundDevices' = foundDevices
            /\ workers[a].st = "done" => workers'[a] = workers[a]]_vars

\* C22 witness: the dial to the first address succeeded and so did Connect,
\* its descriptor is in the list; the dial to the second address failed and
\* its goroutine is about to release its slot
C22_Witness ==
    /\ NetDescriptorsOf(1) # {}
    /\ workers[2].dialed = "failed"
    /\ workers[2].st = "release"

\* the addresses of the program: both subnets, host octets 1 to 254
ProgramAddresses == AddressesUpTo(LastHost)
ProgramAddressesExact ==
    /\ Len(ProgramAddresses) = 508
    /\ {ProgramAddresses[k] : k \in 1..Len(ProgramAddresses)}
          = {"192.168.137.", "192.168.138."} \X (1..254)
    /\ \A j, k \in 1..Len(ProgramAddresses) :
          ProgramAddresses[j] = ProgramAddresses[k] => j = k

\* C23: the addresses gone through are the host octets 1 to 254 of
\* 192.168.137. and 192.168.138., 508 in all and no octet 0 or 255 (in the
\* model: 1 to MaxHost, in the same order); a goroutine is started for each
\* of them in turn, once, and when SearchDevices has returned every one of
\* them has been dialed on and has ended; every network descriptor of the
\* list is that of one of these addresses with port 7778; an address is in
\* the list at most once, and the goroutine whose dial and Connect both
\* succeeded leaves its send only with its descriptor put into the list,
\* where it stays.
C23_EveryAddressOnce ==
    /\ [](/\ ProgramAddressesExact
          /\ {Addresses[a] : a \in 1..Len(Addresses)}
                = {subnets[k] : k \in 1..Len(subnets)} \X (1..MaxHost)
          /\ Len(Addresses) = Len(subnets) * MaxHost
          /\ \A a \in 1..Len(Addresses) :
                /\ workers[a].st = "idle" <=> a >= nextAddr
                /\ workers[a].dialed = "no" <=> workers[a].st \in {"idle", "dial", "done"}
                /\ Cardinality(NetDescriptorsOf(a)) <= 1
                /\ workers[a].st = "disconnect" => Cardinality(NetDescriptorsOf(a)) = 1
          /\ \A k \in 1..Len(foundDevices) :
                foundDevices[k].ConnectionType = 6
                   => /\ foundDevices[k].TCPPort = 7778
                      /\ \E a \in 1..Len(Addresses) : foundDevices[k].IPAddress = Addresses[a]
          /\ spc = "done"
                => /\ nextAddr = Len(Addresses) + 1
                   /\ \A a \in 1..Len(Addresses) : workers[a].st = "done")
    /\ [][/\ nextAddr' \in {nextAddr, nextAddr + 1}
          /\ Len(foundDevices') >= Len(foundDevices)
          /\ SubSeq(foundDevices', 1, Len(foundDevices)) = foundDevices
          /\ \A a \in 1..Len(Addresses) :
                /\ (workers[a].st # "dial" /\ workers'[a].st = "dial")
                      => (workers[a].st = "idle" /\ a = nextAddr /\ nextAddr' = nextAddr + 1)
                /\ (workers[a].st # "done" /\ workers'[a].st = "done")
                      => workers[a].st = "release"
                /\ (workers[a].st = "release" /\ workers'[a].st # "release")
                      => workers'[a].st = "done"
                /\ (workers[a].st = "dial" /\ workers'[a].st # "dial")
                      => workers'[a].dialed # "no"
                /\ (workers[a].st = "send" /\ workers'[a].st # "send")
                      => Cardinality(NetDescriptorsOf(a)') = 1]_vars

\* C23 witness: SearchDevices has returned, every address was confirmed and
\* the list holds each of them once
C23_Witness ==
    /\ spc = "done"
    /\ \A a \in 1..Len(Addresses) : Cardinality(NetDescriptorsOf(a)) = 1
    /\ Len(foundDevices) = Len(Addresses)

\* C24: SearchDevices returns nil for its error, whatever failed: when it
\* has returned, also after serial.GetPortsList failed or listed nothing
\* and after probes of ports and of addresses failed, findOnComPort has been
\* called for every port listed and a goroutine was started for every
\* address and has ended, and the list holds what was found, nothing if
\* nothing was.
C24_NoFailureAborts ==
    /\ searchErr \in {"none", "nil"}
    /\ searchErr = "nil" <=> spc = "done"
    /\ portsErr => ports = <<>>
    /\ spc \in {"network", "done"} => portIdx = Len(ports) + 1
    /\ spc = "done"
          => /\ scanner = "done"
             /\ nextAddr = Len(Addresses) + 1
             /\ \A a \in 1..Len(Addresses) : workers[a].st = "done"
             /\ guard = 0
             /\ wg = 0

\* C24 witness: serial.GetPortsList failed, no address answered, and
\* SearchDevices has returned the empty list and nil
C24_Witness ==
    /\ spc = "done"
    /\ portsErr
    /\ foundDevices = <<>>
    /\ searchErr = "nil"
    /\ nextAddr = Len(Addresses) + 1

\* a port failed and a later port was found, an address failed and a later
\* address was found
C24_WitnessAfterFailures ==
    /\ spc = "done"
    /\ Len(ports) = 2
    /\ Len(foundDevices) = 2
    /\ foundDevices[1].ComName = ports[2]
    /\ foundDevices[2].IPAddress = Addresses[2]

\* C25: when every probe returns and goroutines that can run are run,
\* SearchDevices returns (the serial phase, a loop over a finite list, being
\* over): from no state is the run stuck with the loop of
\* scanRNDISNetworks waiting for a slot, a goroutine waiting at its send or
\* the range loop waiting on foundChan, however many addresses are
\* confirmed.
C25_SearchReturns == <>(spc = "done")

\* C25 witness: SearchDevices has returned with more network descriptors
\* than the pool has slots
C25_Witness ==
    /\ spc = "done"
    /\ Cardinality({k \in 1..Len(foundDevices) : foundDevices[k].ConnectionType = 6})
          > MaxGoroutines

\* the goroutines started by scanRNDISNetworks that have not yet done <-guard
InFlight ==
    {a \in 1..Len(Addresses) :
        workers[a].st \in {"dial", "connect", "send", "disconnect", "release"}}

\* C29: at every moment the goroutines of the network phase that were
\* started and have not released their slot, those waiting at their send
\* included, are as many as the slots taken and at most as many as the pool
\* has (50 in the program, MaxGoroutines here), with more addresses than
\* slots.
C29_AtMostPoolInFlight ==
    /\ Cardinality(InFlight) = guard
    /\ guard <= MaxGoroutines

\* C29 witness: every slot is taken, one of the goroutines waits at its
\* send, and scanRNDISNetworks has an address left that it cannot start
C29_Witness ==
    /\ guard = MaxGoroutines
    /\ nextAddr <= Len(Addresses)
    /\ \E a \in InFlight : workers[a].st = "send"

\* C30: foundChan is closed only when scanRNDISNetworks has returned, so
\* when a goroutine was started for every address and every one of them has
\* ended; once it is closed it stays closed and nothing is sent on it or
\* received from it; a goroutine leaves its send only while the channel is
\* open and with its descriptor appended to the list by the range loop; and
\* SearchDevices returns only after the channel was closed, so with every
\* descriptor that was sent in its list.
C30_ClosedAfterAllProbes ==
    /\ [](/\ closed
                => /\ scanner = "done"
                   /\ nextAddr = Len(Addresses) + 1
                   /\ wg = 0
                   /\ \A a \in 1..Len(Addresses) : workers[a].st = "done"
          /\ spc = "done" => closed)
    /\ [][/\ closed => (closed' /\ foundDevices' = foundDevices /\ workers' = workers)
          /\ \A a \in 1..Len(Addresses) :
                (workers[a].st = "send" /\ workers'[a].st # "send")
                   => /\ ~closed
                      /\ spc = "network"
                      /\ foundDevices' = Append(foundDevices, NetConfig(Addresses[a]))]_vars

\* C30 witness: a descriptor was sent and received, every goroutine has
\* ended, the channel is closed and SearchDevices has not yet returned
C30_Witness ==
    /\ closed
    /\ spc = "network"
    /\ \E a \in 1..Len(Addresses) : NetDescriptorsOf(a) # {}

\* a .json file that os.ReadFile cannot read or json.Unmarshal rejects
Unusable(name, e) == e.kind = "file" /\ Ext(name) = JsonExt /\ (~e.readable \/ ~e.valid)

\* the listing without the names of the unusable files
WithoutUnusable(listing, d) == SelectSeq(listing, LAMBDA n : ~Unusable(n, d[n]))

\* C28: what findSourceWorkstationData returns for a directory is what it
\* returns for the same listing with every .json file that cannot be read
\* or cannot be parsed taken out: such a file neither ends the scan nor
\* changes its result, wherever it stands in the listing.
C28_UnusableFileSkipped ==
    pc = "called"
        => sourceWSDataMap
              = findSourceWorkstationData(dirExists, WithoutUnusable(listed, dir), dir)

\* C28 witness: the listing begins with a file that cannot be read and one
\* that cannot be parsed, and the ideal donor listed after them is returned
C28_Witness ==
    /\ pc = "called"
    /\ Len(listed) = 3
    /\ Unusable(listed[1], dir[listed[1]]) /\ ~dir[listed[1]].readable
    /\ Unusable(listed[2], dir[listed[2]]) /\ dir[listed[2]].readable
    /\ sourceWSDataMap = SomeMap(IdealDonor)

\* a name the cleanup is said to delete: .json with a base that is not all digits
NonDigitJson(n) == EndsInJson(n) /\ ~AllDigits(BaseName(n))

\* C27 as stated: the cleanup pass goes into the subdirectories of the
\* output directory, so after it no subdirectory holds a .json file whose
\* base name is not all digits.
C27_CleanupRecurses ==
    pc = "called"
        => \A n \in DOMAIN inside : \A f \in DOMAIN inside[n] : ~NonDigitJson(f)

\* C27 amended: the cleanup pass does not go into subdirectories: every
\* subdirectory of the output directory is left in place, whatever its name,
\* with every entry it had, .json files with a base name that is not all
\* digits included; the entries of the output directory that are not .json
\* files are left as they were, and what is deleted are regular .json files
\* of the output directory itself whose base name is not all digits.
C27_CleanupSkipsSubdirectories ==
    /\ [][inside' = inside]_vars
    /\ [](pc = "called"
            => /\ \A n \in DOMAIN dir0 :
                     (dir0[n].kind = "dir" \/ ~EndsInJson(n))
                        => (n \in DOMAIN dir /\ dir[n] = dir0[n])
               /\ DOMAIN inside = SubDirs(dir)
               /\ deleted = (DOMAIN dir0) \ (DOMAIN dir)
               /\ \A n \in deleted : dir0[n].kind = "file" /\ NonDigitJson(n))

\* C27 witness: d.json of the output directory was deleted, and x.json
\* inside the subdirectory s is still there
C27_Witness ==
    /\ pc = "called"
    /\ <<"d">> \o JsonExt \in deleted
    /\ <<"s">> \in DOMAIN inside
    /\ <<"x">> \o JsonExt \in DOMAIN inside[<<"s">>]

\* ceil(addresses / poolSize) x tcpTimeout of a timed scan
TimeBound == Ceil(Len(TimedAddresses), tcfg.pool) * tcfg.timeout

\* C26: with the port closed at every address, so that every dial ends in
\* an error within tcpTimeout, scanRNDISNetworks has returned when
\* ceil(addresses / poolSize) x tcpTimeout has passed: the time counted
\* never goes beyond that, for any number of hosts, slots and ticks of the
\* timeout within the bounds and any duration of each dial; nothing is ever
\* sent on foundChan; for the 508 addresses and the 50 slots of the program
\* the factor is 11.
C26_ClosedPortsScanTime ==
    /\ Ceil(Len(ProgramAddresses), PoolSize) = 11
    /\ clk <= TimeBound
    /\ tfound = <<>>
    /\ tguard <= tcfg.pool
    /\ tpc = "done"
          => /\ tnext = Len(TimedAddresses) + 1
             /\ tguard = 0
             /\ \A a \in 1..Len(TimedAddresses) : tw[a].st = "done" /\ tw[a].age <= tcfg.timeout

\* C26 witness: four addresses and three slots, every dial lasted the
\* whole timeout, and the scan has returned exactly at 2 x tcpTimeout
C26_Witness ==
    /\ tpc = "done"
    /\ Len(TimedAddresses) = 4
    /\ tcfg.pool = 3
    /\ tcfg.timeout = 2
    /\ clk = TimeBound
    /\ clk = 4


\* ---------------------------------------------------------------------- C31
\* C31: when SearchDevices returns, every session a probe of the discovery
\* opened on a device has been disconnected and every slot of the pool has
\* been released.  For the serial phase: no attempt of findOnComPort ends
\* with the session open that its Connect method opened.  For the network
\* phase: once SearchDevices has returned, no goroutine is underway, no slot
\* of the pool is occupied and the goroutines that ended left no session.
C31_NoSessionLeftOpen ==
    /\ \A k \in 1..Len(tried) : tried[k].left.sessions = 0
    /\ spc = "done" =>
          /\ guard = 0
          /\ \A a \in 1..Len(Addresses) : workers[a].st = "done"
          /\ leaked.sessions = 0


\* ---------------------------------------------------------------------- C32
\* C32: whenever comDriver.Connect returns an error, what the call acquired
\* has been released: the thread holds as many OS-thread locks, COM
\* initializations and references to the dispatch interface as before the
\* call.
C32_FailedConnectHoldsNothing ==
    (drv.kind = "com" /\ call.op = "Connect" /\ call.err) =>
        /\ resources.locks = call.before.r.locks
        /\ resources.inits = call.before.r.inits
        /\ resources.refs = call.before.r.refs


\* ---------------------------------------------------------------------- C33
\* the records reported by the polled devices other than device k
ReportedByOthers(k) ==
    {polledDevices[j].Info : j \in {l \in 1..Len(polledDevices) : SerialOf(l) # SerialOf(k)}}

\* C33: over any runs on the same output directory, a fiscal-record field of
\* <S>.json never holds a value that a different polled device reported: the
\* value of every fiscal field of the file written for a polled device is
\* the one its own device reported, or one that no other polled device
\* reported for that field.
C33_NoForeignFiscalValue ==
    \A k \in Saved :
      \A ff \in FiscalFields :
        ff.k \in DOMAIN SavedFile(k).obj
            => \/ SavedFile(k).obj[ff.k] = FreshValue(polledDevices[k].Info, ff)
               \/ ~\E rec \in ReportedByOthers(k) :
                       /\ ff \in NonEmpty(rec)
                       /\ SavedFile(k).obj[ff.k] = FreshValue(rec, ff)


\* ---------------------------------------------------------------------- C34
\* the workstation fields of a donor map: those that are neither fields of
\* the fiscal record nor timestamps
WorkstationKeys(m) == (DOMAIN m) \ ({ff.k : ff \in FiscalFields} \cup TimeKeys)

\* the first run found an ideal donor and wrote files from it, and the
\* second run found those files as they were written and no ideal donor
\* among the other entries
CarriedCase ==
    /\ run = 2
    /\ pc \in {"save", "done"}
    /\ firstSource.ok
    /\ IsIdeal(firstSource.m)
    /\ \A n \in firstWritten : n \in DOMAIN dir0 /\ dir0[n] = firstDir[n]
    /\ ~\E n \in (DOMAIN dir0) \ firstWritten : IdealIn(dir0, n)

\* the file of polled device k holds the workstation fields of the first
\* run's donor
HoldsFirstW(k) ==
    \A key \in WorkstationKeys(firstSource.m) :
        /\ key \in DOMAIN SavedFile(k).obj
        /\ SavedFile(k).obj[key] = firstSource.m[key]

DonorsOf(d) == {findSourceWorkstationData(TRUE, listing, d) : listing \in Listings(DOMAIN d)}

\* C35: saveNewMergedInfo never modifies the donor map it is given.  From
\* the donor scan to the end of the run the donor map stays the one the scan
\* returned for the directory the run found, and the field map of every file
\* written is, but for its timestamps, the record of its own device laid
\* over that donor map (or over the local hostname when there is no donor):
\* neither the position of the device in the batch nor the other devices of
\* the batch have a part in it.
C35_DonorMapUntouched ==
    /\ [](/\ (pc \in {"cleanup", "save", "done"} /\ polledDevices # <<>>)
                => sourceWSDataMap \in DonorsOf(dir0)
          /\ \A k \in Saved :
                WithoutTimes(SavedFile(k).obj)
                    = WithoutTimes(Overlay(WsDataToUse(sourceWSDataMap),
                                           KktMap(polledDevices[k].Info))))
    /\ [][(pc \in {"cleanup", "save"}) => (sourceWSDataMap' = sourceWSDataMap)]_vars

\* C35 witness: a donor without modelName and licenses was found; the first
\* device, which reported a model name, was saved before the second, which
\* reported none, and the file of the second has no modelName while the file
\* of the first has no licenses
C35_Witness ==
    /\ pc = "done"
    /\ sourceWSDataMap.ok
    /\ {"modelName", "licenses"} \cap DOMAIN sourceWSDataMap.m = {}
    /\ Saved = {1, 2}
    /\ polledDevices[1].Info.ModelName # <<>>
    /\ polledDevices[2].Info.ModelName = <<>>
    /\ polledDevices[2].Info.SubscriptionInfo # <<>>
    /\ "modelName" \in DOMAIN SavedFile(1).obj
    /\ "modelName" \notin DOMAIN SavedFile(2).obj
    /\ "licenses" \notin DOMAIN SavedFile(1).obj
    /\ "licenses" \in DOMAIN SavedFile(2).obj


\* ---------------------------------------------------------------------- C36
\* C36: if no descriptor of the batch yields a valid record, processDevices
\* returns an empty result without scanning for a donor, running the cleanup
\* or writing a file: as long as nothing was polled the scan, the cleanup
\* and the save loop are not entered, nothing is deleted or written, the
\* directory is as the run found it, and the step that ends such a run
\* changes neither the directory nor its existence.
C36_NothingPolledNothingTouched ==
    /\ [](polledDevices = <<>>
            => /\ pc \in {"connect", "getinfo", "disconnect", "done"}
               /\ scans = 0
               /\ sourceWSDataMap = NilMap
               /\ deleted = {}
               /\ written = <<>>
               /\ successCount = 0
               /\ dir = dir0
               /\ pc = "done" => returned = <<>>)
    /\ [][(polledDevices = <<>>) => UNCHANGED <<dir, dirExists>>]_vars

\* C36 witness: a batch of two descriptors, one whose Connect fails and one
\* whose record has no serial number, has returned; the directory held a
\* non-canonical .json file and holds it still
C36_Witness ==
    /\ pc = "done"
    /\ Len(mocks) = 2
    /\ \E k \in 1..2 : mocks[k].ConnectErr
    /\ \E k \in 1..2 : ~mocks[k].MockData.isNil /\ mocks[k].MockData.rec.SerialNumber = <<>>
    /\ polledDevices = <<>>
    /\ returned = <<>>
    /\ \E n \in DOMAIN dir0 : n \in NonCanonical(dir0) /\ n \in DOMAIN dir /\ dir[n] = dir0[n]
    /\ dir = dir0


\* ---------------------------------------------------------------------- C37
\* a discovery run that found no device has ended / was the run before
FoundNothing == mpc = "done" /\ mode = "discovery" /\ mconfigs = <<>>
FoundNothingBefore == mrun = 2 /\ lastRun.mode = "discovery" /\ lastRun.found = <<>>

\* connect.json holds a shtrih list that is empty and not null
EmptyList(file) ==
    file.st = "json" /\ file.shtrih.kind = "array" /\ file.shtrih.list = <<>>

PolledSome == mpc = "done" /\ mode = "discovery" /\ mpolled # <<>>
PolledSomeBefore == mrun = 2 /\ lastRun.mode = "discovery" /\ lastRun.polled # <<>>

\* the entry of connect.json holds what the descriptor holds
Describes(s, config) ==
    /\ s.TypeConnect = config.ConnectionType
    /\ config.ConnectionType = 0
          => /\ s.ComPort = config.ComName
             /\ baudRateMapOk(s.ComBaudrate)
             /\ baudRateMap(s.ComBaudrate) = config.BaudRate
    /\ config.ConnectionType = 6
          => /\ s.IP = config.IPAddress
             /\ AtoiOk(s.IPPort)
             /\ Atoi(s.IPPort) = config.TCPPort

\* the list holds the descriptors polled, in their order, and converting it
\* gives them back
HoldsPolled(file, polled) ==
    /\ file.st = "json"
    /\ file.shtrih.kind = "array"
    /\ Len(file.shtrih.list) = Len(polled)
    /\ \A k \in 1..Len(polled) : Describes(file.shtrih.list[k], polled[k])
    /\ convertSettingsToConfigs(file.shtrih.list) = [panic |-> FALSE, configs |-> polled]
    /\ \A k \in 1..Len(polled) : polled[k].Password = 30

AfterThird(name) == IF Len(name) > 3 THEN SubSeq(name, 4, Len(name)) ELSE <<>>

\* the entries the statement calls valid
ValidEntry(s) ==
    \/ s.TypeConnect = 0 /\ AtoiOk(AfterThird(s.ComPort)) /\ baudRateMapOk(s.ComBaudrate)
    \/ s.TypeConnect = 6 /\ AtoiOk(s.IPPort)

\* the descriptor of a valid entry
DescriptorOf(s) ==
    IF s.TypeConnect = 0
    THEN [ZeroConfig EXCEPT !.ConnectionType = 0, !.ComName = s.ComPort,
                            !.ComNumber = Atoi(AfterThird(s.ComPort)),
                            !.BaudRate = baudRateMap(s.ComBaudrate), !.Password = 30]
    ELSE [ZeroConfig EXCEPT !.ConnectionType = 6, !.IPAddress = s.IP,
                            !.TCPPort = Atoi(s.IPPort), !.Password = 30]

\* the descriptors of the valid entries of a list, in its order
RECURSIVE ValidDescriptors(_)
ValidDescriptors(settings) ==
    IF settings = <<>> THEN <<>>
    ELSE LET s == settings[Len(settings)] IN
         ValidDescriptors(SubSeq(settings, 1, Len(settings) - 1))
         \o (IF ValidEntry(s) THEN <<DescriptorOf(s)>> ELSE <<>>)

\* runConfigMode has converted the list of connect.json
Converted ==
    /\ mode = "config"
    /\ Len(Unmarshal(cfile0).configFile.Shtrih.list) > 0

\* C39: convertSettingsToConfigs returns, in input order, exactly the
\* descriptors of the valid entries of the list, and skips every other
\* entry, an empty or short com_port included, without ending the
\* conversion: whenever runConfigMode has converted the list of
\* connect.json, the conversion did not panic and what is polled is the
\* descriptors of the valid entries, or nothing when there is none.
C39_InvalidEntriesSkipped ==
    Converted
      => LET settings == Unmarshal(cfile0).configFile.Shtrih.list IN
         /\ mpc # "panic"
         /\ ~convertSettingsToConfigs(settings).panic
         /\ convertSettingsToConfigs(settings).configs = ValidDescriptors(settings)
         /\ mconfigs = ValidDescriptors(settings)
         /\ mpc \in {"poll", "done"}
         /\ ValidDescriptors(settings) = <<>> => mpc = "done" /\ polls = 0


\* ---------------------------------------------------------------------- C40
\* instance i is polling devices or writing the files of the run
Operating(i) == inst[i] \in {"poll", "write"}

\* instance i may still come to poll or write
MayStillOperate(i) == inst[i] \in {"start", "read", "search", "poll", "write"}

\* C40: at no time do two instances of the program operate on the output
\* directory together, and a new instance is started by the update check
\* only when the instance that starts it can no longer poll a device or
\* write a file: while an instance started from another one has not ended,
\* the other one either has ended or is at os.Exit, past every step of its
\* main.
C40_SingleRunOwner ==
    /\ \A i, j \in Instances : (i # j /\ Operating(i)) => ~Operating(j)
    /\ \A i \in Instances :
          (i < MaxInstances /\ inst[i + 1] # "none") => ~MayStillOperate(i)

====
